---- MODULE Spec2Model ----
(***************************************************************************)
(* Model of the chat engine of evgeniy-scherbina/agent: the conversation   *)
(* log and its rendering for the LLM (Conversation.ToOpenAIMessages), the  *)
(* tool-call loop of ChatEngine.SendUserMessageWithCallback, and the       *)
(* ProcessManager with its processes and exit-watcher goroutines.          *)
(***************************************************************************)
EXTENDS Integers, Sequences, FiniteSets, TLC

VARIABLES
    Messages,        \* conv.Messages: the log of the conversation
    openaiMessages,  \* result of the last Conversation.ToOpenAIMessages() call
    isRendered,      \* openaiMessages is the rendering of the current log
    pc,              \* where the send is: "idle", "awaitFirst", "tools", "awaitLoop"
    paramsMessages,  \* params.Messages of the last LLM call issued
    llmReply,        \* the completion (or error) of the LLM call in flight
    userMessage,     \* SendUserMessageWithCallback: userMessage
    responseMessage, \* SendUserMessageWithCallback: responseMessage
    toolCalls,       \* executeLLMRequestedToolCalls: toolCalls
    iteration,       \* executeLLMRequestedToolCalls: iteration
    idx,             \* position of the range over toolCalls (1-based)
    processedToolCallIDs, \* executeLLMRequestedToolCalls: processedToolCallIDs
    allNewMessages,  \* executeLLMRequestedToolCalls: allNewMessages
    result,          \* what the last send returned
    llmCalls,        \* the LLM calls the send has issued
    delivered,       \* the messages the send has passed to its callback, in order
    cancelled,       \* the context of the request that made the send is done
    dbMessages,      \* the rows of the conversation in table messages, in insert order
    saveFailuresLeft, \* calls of db.SaveMessage that may still fail
    processes,       \* ProcessManager.processes: pid -> ProcessInfo
    running,         \* process table: the pids of the started processes still running
    zombies,         \* process table: the pids that exited and were not yet waited for
    nextPid,         \* the pid the OS gives to the next started process
    watchers,        \* the started commands, in order of start, and their exit-watchers
    executed,        \* the commands the last tool call or supervisor call handed to bash
    signalled,       \* the pids the last tool call or supervisor call sent a signal to
    pmResult,        \* what the supervisor call that just returned gave back
    nextCallID,      \* the LLM's counter for tool-call identifiers
    sendsLeft,       \* sends the callers still make
    variedLeft,      \* LLM responses that may still be drawn from VariedReplies
    cleanup,         \* the goroutine of setupCleanup, its channel, and the process
    senders,         \* SpecConcurrent: the goroutines that serve concurrent requests
    clock,           \* SpecConcurrent: what time.Now().UnixNano() returns
    listers,         \* SpecLock: the goroutines that call ListProcesses
    conversations,   \* ChatEngine.conversations: identifier -> *Conversation
    convDB,          \* the identifiers in the conversations table
    allocated,       \* how many Conversation objects have been allocated
    getters,         \* the goroutines that call Get(OrCreate)Conversation
    ranging,         \* the goroutine that calls ListConversation
    returned,        \* history: <<identifier, object>> for every call's result
    messagesTable,   \* SpecLoad: the rows of table messages, in rowid order
    toolCallsTable,  \* SpecLoad: the rows of table tool_calls, in id order
    dbNow,           \* SpecLoad: CURRENT_TIMESTAMP, in seconds
    loaded,          \* SpecLoad: the messages the last LoadConversation returned
    stream           \* SpecStream: handleSendMessageStream and its worker goroutine

renderVars == <<openaiMessages, isRendered>>
sendVars == <<pc, paramsMessages, llmReply, userMessage, responseMessage,
              toolCalls, iteration, idx, processedToolCallIDs, allNewMessages,
              result, llmCalls, delivered, cancelled, dbMessages, saveFailuresLeft,
              nextCallID, sendsLeft, variedLeft>>
processVars == <<processes, running, zombies, nextPid, watchers, executed, signalled,
                 pmResult>>
shutdownVars == <<cleanup>>
concurrentVars == <<senders, clock>>
lockVars == <<listers>>
convVars == <<conversations, convDB, allocated, getters, ranging, returned>>
tableVars == <<messagesTable, toolCallsTable, dbNow, loaded>>
streamVars == <<stream>>
vars == <<Messages, renderVars, sendVars, processVars, shutdownVars, concurrentVars,
          lockVars, convVars, tableVars, streamVars>>

\* ------------------------------------------------------------------ bounds

\* Longest log built from arbitrary appends in SpecRender.
MaxLog == 4

\* In Spec, the number of LLM responses of the send that are drawn from the
\* full set of tool-call shapes; later responses are drawn from CanonicalReplies.
VariedRounds == 1

\* In SpecSends, the number of sends on the conversation.
MaxSends == 2

\* The pid of the first process the OS starts.
FirstPid == 100

\* In SpecPM, the number of commands StartProcess starts.
MaxStarts == 2

\* In SpecPM, the number of pids the OS hands out, from FirstPid on; a pid is
\* handed out again once its process was waited for.
NumPids == 2

\* In SpecShutdown, the number of interrupt or termination signals the OS
\* delivers to the program.
MaxSignals == 2

\* In SpecConcurrent, the time in nanoseconds at which the first request
\* arrives.
FirstClock == 1

\* In SpecStream, the keepalive comments the handler writes.
MaxKeepalives == 1

\* In SpecLoad, the seconds that pass while the messages are saved.
MaxSeconds == 2

\* In SpecDB, the number of db.SaveMessage calls that fail.
MaxSaveFailures == 1

\* executeLLMRequestedToolCalls: maxIterations
MaxIterations == 10

\* ------------------------------------------------------------ data model

\* type ToolCall struct {ID, Type, Name, Arguments}
ToolCall(id, name, arguments) ==
    [ID |-> id, Type |-> "function", Name |-> name, Arguments |-> arguments]

\* type Message struct {Role, Content, ToolCalls, TollCallID}; the zero value
\* of TollCallID is the empty string.
Message(role, content, calls, tollCallID) ==
    [Role |-> role, Content |-> content, ToolCalls |-> calls,
     TollCallID |-> tollCallID]

\* A message in the format of the OpenAI API (ChatCompletionMessageParamUnion):
\* the role selects the variant (OfUser, OfAssistant, OfTool).
OpenAIMessage(role, content, calls, toolCallID) ==
    [role |-> role, content |-> content, tool_calls |-> calls,
     tool_call_id |-> toolCallID]

\* ------------------------------------------------- rendering (pure part)

\* ToOpenAIMessageWithTools: an assistant message, with its tool calls.
ToOpenAIMessageWithTools(msg) ==
    IF Len(msg.ToolCalls) = 0
    THEN OpenAIMessage("assistant", msg.Content, <<>>, "")
    ELSE OpenAIMessage("assistant", msg.Content,
             [i \in 1..Len(msg.ToolCalls) |->
                 [ID |-> msg.ToolCalls[i].ID, Type |-> "function",
                  Name |-> msg.ToolCalls[i].Name,
                  Arguments |-> msg.ToolCalls[i].Arguments]],
             "")

\* Mutant of ToOpenAIMessage: a tool message loses its role and identifier.
ToOpenAIMessageToolAsUser(msg) ==
    CASE msg.Role = "assistant" -> ToOpenAIMessageWithTools(msg)
      [] OTHER -> OpenAIMessage("user", msg.Content, <<>>, "")

\* ToOpenAIMessage: one log message in the API's format; an unknown role
\* falls back to a user message.
ToOpenAIMessage(msg) ==
    CASE msg.Role = "user" -> OpenAIMessage("user", msg.Content, <<>>, "")
      [] msg.Role = "assistant" -> ToOpenAIMessageWithTools(msg)
      [] msg.Role = "tool" ->
             OpenAIMessage("tool", msg.Content, <<>>, msg.TollCallID)
      [] OTHER -> OpenAIMessage("user", msg.Content, <<>>, "")

\* The placeholder tool message ToOpenAIMessages synthesizes for an identifier.
ErrorToolMsg(toolCallID) ==
    OpenAIMessage("tool",
        "Error: missing tool response for tool_call_id " \o toolCallID
            \o ". Conversation state may be corrupted.",
        <<>>, toolCallID)

\* Every order in which a range over a Go map with these keys can visit them.
RECURSIVE MapOrders(_)
MapOrders(keys) ==
    IF keys = {} THEN {<<>>}
    ELSE UNION {{<<k>> \o rest : rest \in MapOrders(keys \ {k})} : k \in keys}

ErrorToolMsgs(order) == [i \in 1..Len(order) |-> ErrorToolMsg(order[i])]

ToolCallIDs(msg) == {msg.ToolCalls[i].ID : i \in 1..Len(msg.ToolCalls)}

HasToolCalls(msg) == msg.Role = "assistant" /\ Len(msg.ToolCalls) > 0

\* The state of the walk of ToOpenAIMessages: the pending set and the output.
RenderState(pendingToolCalls, out) == [pending |-> pendingToolCalls, out |-> out]

\* The body of the loop of ToOpenAIMessages for one log message; the result is
\* the set of states it can leave (one per map iteration order).
RenderStep(state, msg) ==
    LET \* track the tool calls of an assistant message
        tracked == IF HasToolCalls(msg)
                   THEN state.pending \cup ToolCallIDs(msg)
                   ELSE state.pending
        \* a tool message resolves its identifier
        resolved == IF msg.Role = "tool" /\ msg.TollCallID # ""
                    THEN tracked \ {msg.TollCallID}
                    ELSE tracked
    IN  IF HasToolCalls(msg) /\ resolved # {}
        THEN \* error tool messages for everything pending, each deleted
             {RenderState({}, Append(state.out \o ErrorToolMsgs(o), ToOpenAIMessage(msg)))
              : o \in MapOrders(resolved)}
        ELSE {RenderState(resolved, Append(state.out, ToOpenAIMessage(msg)))}

\* The loop of ToOpenAIMessages over log positions lo..hi, from any of the
\* given states (the range is halved to keep the evaluation shallow).
RECURSIVE RenderRange(_, _, _, _)
RenderRange(msgs, lo, hi, states) ==
    IF lo > hi THEN states
    ELSE IF lo = hi THEN UNION {RenderStep(st, msgs[lo]) : st \in states}
    ELSE LET firstHalf == RenderRange(msgs, lo, (lo + hi) \div 2, states)
         IN  IF firstHalf = {} THEN {}
             ELSE RenderRange(msgs, ((lo + hi) \div 2) + 1, hi, firstHalf)

\* After the loop: error responses for what is still pending.
RenderEnd(state) ==
    IF state.pending # {}
    THEN {state.out \o ErrorToolMsgs(o) : o \in MapOrders(state.pending)}
    ELSE {state.out}

\* Mutant of ToOpenAIMessages: only the last message of the log is rendered.
ToOpenAIMessagesOfLast(msgs) == {<<ToOpenAIMessage(msgs[Len(msgs)])>>}

\* Conversation.ToOpenAIMessages: the possible renderings of a log.
ToOpenAIMessages(msgs) ==
    UNION {RenderEnd(st) : st \in RenderRange(msgs, 1, Len(msgs), {RenderState({}, <<>>)})}

\* ------------------------------------------------------- process manager

\* type ProcessInfo struct {PID, Command, StartTime, ConversationID};
\* StartTime is the ordinal of the start (time.Now() grows from start to start).
ProcessInfo(pid, command, startTime, conversationID) ==
    [PID |-> pid, Command |-> command, StartTime |-> startTime,
     ConversationID |-> conversationID]

\* A map without key k (delete(pm.processes, k)).
MapDelete(m, k) == [x \in (DOMAIN m) \ {k} |-> m[x]]

\* A map without the keys in ks.
MapDeleteAll(m, ks) == [x \in (DOMAIN m) \ ks |-> m[x]]

\* One started command: the pid cmd.Start() got, the command, and where the
\* StartProcess call and its exit-watcher goroutine are: "start" (started,
\* record not yet stored), "wait" (record stored, watcher in cmd.Wait()),
\* "lock" (cmd.Wait() returned, the watcher has not yet taken the mutex),
\* "done" (the watcher deleted the key). The conversation is held while the
\* call is at "start"; the watcher's closure has only cmd, pid and command,
\* and a watcher that is done holds no pid any more (0).
Watcher(pid, command, conversationID, at) ==
    [PID |-> pid, Command |-> command, ConversationID |-> conversationID, at |-> at]

\* StartProcess, lines 68-70: the record is stored under its pid.
Register(procs, info) == (info.PID :> info) @@ procs

\* ProcessManager.StartProcess run without interleaving: cmd.Start() succeeds
\* (started) or fails; on success the record is stored under the new pid and
\* the exit-watcher is spawned. startTime is the ordinal of this start.
StartProcess(command, conversationID, procs, run, pid, startTime, started) ==
    IF ~started
    THEN [err |-> "failed to start process: fork/exec: resource temporarily unavailable",
          PID |-> 0, Command |-> command,
          processes |-> procs, running |-> run, nextPid |-> pid,
          executed |-> {}, spawned |-> <<>>]
    ELSE [err |-> "", PID |-> pid, Command |-> command,
          processes |-> Register(procs, ProcessInfo(pid, command, startTime,
                                                    conversationID)),
          running |-> run \cup {pid}, nextPid |-> pid + 1,
          executed |-> {command},
          spawned |-> <<Watcher(pid, command, "", "wait")>>]

\* kill(2) and os.Process.Signal succeed for a pid of the process table: a
\* running process, or one that exited and was not yet waited for.
SignalDelivered(pid, run, zom) == pid \in run \cup zom

\* Mutant of KillProcess: the test of the registry is missing.
KillProcessUnchecked(pid, procs, run, zom, dies) ==
    [err |-> "", processes |-> MapDelete(procs, pid),
     running |-> IF dies THEN run \ {pid} ELSE run,
     zombies |-> IF dies /\ pid \in run THEN zom \cup {pid} ELSE zom,
     signalled |-> {pid}]

\* Mutant of KillProcess: the record is kept after the signal.
KillProcessKeepsRecord(pid, procs, run, zom, dies) ==
    IF pid \notin DOMAIN procs
    THEN [err |-> "process " \o ToString(pid) \o " not found",
          processes |-> procs, running |-> run, zombies |-> zom, signalled |-> {}]
    ELSE [err |-> "", processes |-> procs,
          running |-> IF dies THEN run \ {pid} ELSE run,
          zombies |-> IF dies /\ pid \in run THEN zom \cup {pid} ELSE zom,
          signalled |-> {pid}]

\* ProcessManager.KillProcess: not found without a record; else SIGTERM to the
\* process group, which fails when the process table has no such pid, and then
\* process.Kill(), which fails for the same reason; unless both fail the
\* record is deleted. dies: the running process ends on SIGTERM (it may also
\* catch or ignore it).
KillProcess(pid, procs, run, zom, dies) ==
    IF pid \notin DOMAIN procs
    THEN [err |-> "process " \o ToString(pid) \o " not found",
          processes |-> procs, running |-> run, zombies |-> zom, signalled |-> {}]
    ELSE IF SignalDelivered(pid, run, zom)
    THEN [err |-> "", processes |-> MapDelete(procs, pid),
          running |-> IF dies THEN run \ {pid} ELSE run,
          zombies |-> IF dies /\ pid \in run THEN zom \cup {pid} ELSE zom,
          signalled |-> {pid}]
    ELSE [err |-> "failed to kill process: os: process already finished",
          processes |-> procs, running |-> run, zombies |-> zom,
          signalled |-> {pid}]

\* ListProcesses, lines 92-95: os.FindProcess and signal 0; exists is the set
\* of pids of the process table.
Probe(pid, exists) == pid \in exists

\* The loop of ProcessManager.ListProcesses over the records in map order:
\* a record whose process answers signal 0 is listed, any other is deleted.
RECURSIVE ListFrom(_, _, _, _, _)
ListFrom(order, i, procs, exists, listed) ==
    IF i > Len(order) THEN [list |-> listed, processes |-> procs]
    ELSE IF Probe(order[i], exists)
    THEN ListFrom(order, i + 1, procs, exists, Append(listed, procs[order[i]]))
    ELSE ListFrom(order, i + 1, MapDelete(procs, order[i]), exists, listed)

\* ProcessManager.ListProcesses, for one iteration order of the map.
ListProcesses(procs, exists, order) == ListFrom(order, 1, procs, exists, <<>>)

\* Mutant of KillRecords: the records are signalled and kept.
KillRecordsKept(pids, procs, run, zom) ==
    [processes |-> procs, running |-> run \ pids,
     zombies |-> zom \cup (run \cap pids), signalled |-> pids]

\* The body shared by the loops of KillAll and KillByConversation, applied to
\* the records under pids: SIGTERM to the group and SIGKILL to the process,
\* results ignored, then the key is deleted. A running process ends on SIGKILL.
KillRecords(pids, procs, run, zom) ==
    [processes |-> MapDeleteAll(procs, pids), running |-> run \ pids,
     zombies |-> zom \cup (run \cap pids), signalled |-> pids]

\* ProcessManager.KillAll
KillAll(procs, run, zom) == KillRecords(DOMAIN procs, procs, run, zom)

\* Mutant of MatchesConversation: the filter is missing.
MatchesAnyConversation(info, conversationID) == TRUE

\* KillByConversation, line 155
MatchesConversation(info, conversationID) == info.ConversationID = conversationID

\* ProcessManager.KillByConversation
KillByConversation(conversationID, procs, run, zom) ==
    KillRecords({pid \in DOMAIN procs : MatchesConversation(procs[pid], conversationID)},
                procs, run, zom)

\* ----------------------------------------------------------- tool executor

\* The argument payloads the modelled LLM sends.
ArgsLs == "{\"command\":\"ls\"}"
ArgsLsNope == "{\"command\":\"ls /nope\"}"
ArgsNotJSON == "{not json"
ArgsEmptyObject == "{}"
ArgsCommandNumber == "{\"command\":42}"
ArgsCommandEmpty == "{\"command\":\"\"}"
ArgsCommandBlank == "{\"command\":\"  \"}"
ArgsSleepBackground == "{\"command\":\"sleep 60\",\"background\":true}"
ArgsBlankBackground == "{\"command\":\"  \",\"background\":true}"
ArgsPidText == "{\"pid\":\"abc\"}"
ArgsPidUnknown == "{\"pid\":12345}"
ArgsPidFirst == "{\"pid\":" \o ToString(FirstPid) \o "}"

\* json.Unmarshal([]byte(toolCall.Arguments), &args) and the three type
\* assertions made on the result: args["command"].(string),
\* args["background"].(bool), args["pid"].(float64).
ParsedArgs(err, commandOk, command, background, pidOk, pid) ==
    [err |-> err, commandOk |-> commandOk, command |-> command,
     background |-> background, pidOk |-> pidOk, pid |-> pid]

Unmarshal(arguments) ==
    CASE arguments = ArgsLs -> ParsedArgs("", TRUE, "ls", FALSE, FALSE, 0)
      [] arguments = ArgsLsNope -> ParsedArgs("", TRUE, "ls /nope", FALSE, FALSE, 0)
      [] arguments = ArgsEmptyObject -> ParsedArgs("", FALSE, "", FALSE, FALSE, 0)
      [] arguments = ArgsCommandNumber -> ParsedArgs("", FALSE, "", FALSE, FALSE, 0)
      [] arguments = ArgsCommandEmpty -> ParsedArgs("", TRUE, "", FALSE, FALSE, 0)
      [] arguments = ArgsCommandBlank -> ParsedArgs("", TRUE, "  ", FALSE, FALSE, 0)
      [] arguments = ArgsSleepBackground -> ParsedArgs("", TRUE, "sleep 60", TRUE, FALSE, 0)
      [] arguments = ArgsBlankBackground -> ParsedArgs("", TRUE, "  ", TRUE, FALSE, 0)
      [] arguments = ArgsPidText -> ParsedArgs("", FALSE, "", FALSE, FALSE, 0)
      [] arguments = ArgsPidUnknown -> ParsedArgs("", FALSE, "", FALSE, TRUE, 12345)
      [] arguments = ArgsPidFirst -> ParsedArgs("", FALSE, "", FALSE, TRUE, FirstPid)
      [] OTHER -> ParsedArgs("invalid character 'n' looking for beginning of object key string",
                             FALSE, "", FALSE, FALSE, 0)

\* strings.TrimSpace on the modelled commands.
TrimSpace(command) ==
    CASE command = "  " -> ""
      [] OTHER -> command

\* What bash -c command prints and whether it exits nonzero (cmd.CombinedOutput).
BashRun(command) ==
    CASE command = "ls" -> [output |-> "file.txt\n", err |-> ""]
      [] command = "ls /nope" ->
             [output |-> "ls: cannot access '/nope': No such file or directory\n",
              err |-> "exit status 2"]
      [] OTHER -> [output |-> "", err |-> ""]

\* executeBashCommand; executed: the commands handed to bash.
executeBashCommand(command) ==
    IF TrimSpace(command) = ""
    THEN [output |-> "", err |-> "empty command", executed |-> {}]
    ELSE [output |-> BashRun(command).output, err |-> BashRun(command).err,
          executed |-> {command}]

\* executeBashCommandBackground
executeBashCommandBackground(command, conversationID, procs, run, pid, startTime, started) ==
    IF TrimSpace(command) = ""
    THEN [output |-> "", err |-> "empty command",
          processes |-> procs, running |-> run, nextPid |-> pid,
          executed |-> {}, spawned |-> <<>>]
    ELSE LET info == StartProcess(command, conversationID, procs, run, pid,
                                  startTime, started)
         IN  IF info.err # ""
             THEN [output |-> "",
                   err |-> "failed to start background process: " \o info.err,
                   processes |-> info.processes, running |-> info.running,
                   nextPid |-> info.nextPid,
                   executed |-> info.executed, spawned |-> info.spawned]
             ELSE [output |-> "Started background process (PID: " \o ToString(info.PID)
                                  \o ")\nCommand: " \o info.Command,
                   err |-> "",
                   processes |-> info.processes, running |-> info.running,
                   nextPid |-> info.nextPid,
                   executed |-> info.executed, spawned |-> info.spawned]

\* What a tool call leaves behind: the output, the supervisor's registry and
\* the process table, and what the call did to the system: the commands it
\* handed to bash, the pids it sent a signal to, the watchers it spawned.
ToolOutcome(output, procs, run, zom, pid) ==
    [output |-> output, processes |-> procs, running |-> run, zombies |-> zom,
     nextPid |-> pid, executed |-> {}, signalled |-> {}, spawned |-> <<>>]

\* Mutant of BashCommandCase: the result of the type assertion on "command"
\* is not tested.
BashCommandCaseUnchecked(toolCall, conversationID, procs, run, zom, pid, startTime, started) ==
    LET args == Unmarshal(toolCall.Arguments)
    IN  IF args.err # ""
        THEN ToolOutcome("Error: failed to parse tool call arguments: " \o args.err,
                         procs, run, zom, pid)
        ELSE [ToolOutcome(executeBashCommand(args.command).output, procs, run, zom, pid)
                 EXCEPT !.executed = executeBashCommand(args.command).executed]

\* case "bash_command" of the switch in executeLLMRequestedToolCalls
BashCommandCase(toolCall, conversationID, procs, run, zom, pid, startTime, started) ==
    LET args == Unmarshal(toolCall.Arguments)
    IN  IF args.err # ""
        THEN ToolOutcome("Error: failed to parse tool call arguments: " \o args.err,
                         procs, run, zom, pid)
        ELSE IF ~args.commandOk
        THEN ToolOutcome("Error: missing required 'command' argument",
                         procs, run, zom, pid)
        ELSE IF args.background
        THEN LET bg == executeBashCommandBackground(args.command, conversationID,
                                                    procs, run, pid, startTime, started)
             IN  [ToolOutcome(bg.output, bg.processes, bg.running, zom, bg.nextPid)
                     EXCEPT !.executed = bg.executed, !.spawned = bg.spawned]
        ELSE [ToolOutcome(executeBashCommand(args.command).output, procs, run, zom, pid)
                 EXCEPT !.executed = executeBashCommand(args.command).executed]

\* strings.Join of the lines of the listing
RECURSIVE ProcessLines(_, _)
ProcessLines(list, i) ==
    IF i > Len(list) THEN ""
    ELSE (IF i > 1 THEN "\n" ELSE "")
         \o "PID: " \o ToString(list[i].PID) \o " | Command: " \o list[i].Command
         \o " | Running for: 0s"
         \o ProcessLines(list, i + 1)

\* case "list_processes"
ListProcessesCase(procs, run, zom, pid, order) ==
    LET listing == ListProcesses(procs, run \cup zom, order)
    IN  IF Len(listing.list) = 0
        THEN ToolOutcome("No background processes running.", listing.processes,
                         run, zom, pid)
        ELSE ToolOutcome("Running background processes (" \o ToString(Len(listing.list))
                             \o "):\n" \o ProcessLines(listing.list, 1),
                         listing.processes, run, zom, pid)

\* case "kill_process"
KillProcessCase(toolCall, procs, run, zom, pid, dies) ==
    LET args == Unmarshal(toolCall.Arguments)
    IN  IF args.err # ""
        THEN ToolOutcome("Error: failed to parse tool call arguments: " \o args.err,
                         procs, run, zom, pid)
        ELSE IF ~args.pidOk
        THEN ToolOutcome("Error: invalid PID", procs, run, zom, pid)
        ELSE LET killed == KillProcess(args.pid, procs, run, zom, dies)
             IN  IF killed.err # ""
                 THEN [ToolOutcome("Error killing process: " \o killed.err,
                                   killed.processes, killed.running, killed.zombies, pid)
                          EXCEPT !.signalled = killed.signalled]
                 ELSE [ToolOutcome("Successfully killed process " \o ToString(args.pid),
                                   killed.processes, killed.running, killed.zombies, pid)
                          EXCEPT !.signalled = killed.signalled]

\* Mutant of UnknownToolCase: an unknown tool is answered with empty content.
UnknownToolCaseSilent(toolCall, procs, run, zom, pid) ==
    ToolOutcome("", procs, run, zom, pid)

\* default case
UnknownToolCase(toolCall, procs, run, zom, pid) ==
    ToolOutcome("Error: unknown tool call '" \o toolCall.Name \o "'",
                procs, run, zom, pid)

\* The switch on toolCall.Name in executeLLMRequestedToolCalls.
ExecuteToolCall(toolCall, conversationID, procs, run, zom, pid, startTime, started, dies, order) ==
    CASE toolCall.Name = "bash_command" ->
             BashCommandCase(toolCall, conversationID, procs, run, zom, pid, startTime,
                             started)
      [] toolCall.Name = "list_processes" -> ListProcessesCase(procs, run, zom, pid, order)
      [] toolCall.Name = "kill_process" ->
             KillProcessCase(toolCall, procs, run, zom, pid, dies)
      [] OTHER -> UnknownToolCase(toolCall, procs, run, zom, pid)

\* ----------------------------------------------------- inputs of SpecRender

\* The messages appended in SpecRender: every role, assistant messages with
\* zero, one and two tool calls, tool messages with and without identifier,
\* and a role the engine does not know.
AnyMessage ==
    { Message("user", "hi", <<>>, ""),
      Message("system", "be brief", <<>>, ""),
      Message("assistant", "done", <<>>, ""),
      Message("assistant", "", <<ToolCall("call_1", "bash_command", ArgsLs)>>, ""),
      Message("assistant", "", <<ToolCall("call_2", "list_processes", "{}")>>, ""),
      Message("assistant", "run", <<ToolCall("call_1", "bash_command", ArgsLs),
                                    ToolCall("call_2", "list_processes", "{}")>>, ""),
      Message("tool", "file.txt", <<>>, "call_1"),
      Message("tool", "No background processes running.", <<>>, "call_2"),
      Message("tool", "orphan", <<>>, "") }

\* ------------------------------------------------------- inputs of Spec

ConversationID == "conv-1"

\* A completion of the LLM: an error, or a message with content and tool calls.
NoReply == [state |-> "none", Content |-> "", ToolCalls |-> <<>>]
ErrorReply == [state |-> "error", Content |-> "", ToolCalls |-> <<>>]
Completion(content, calls) == [state |-> "ok", Content |-> content, ToolCalls |-> calls]

\* The identifier the LLM gives to its n-th tool call.
CallID(n) == "call_" \o ToString(n)

\* The (name, arguments) pairs of the tool calls the modelled LLM requests.
BashLs == <<"bash_command", ArgsLs>>
StartSleep == <<"bash_command", ArgsSleepBackground>>

ToolRequests ==
    { BashLs, StartSleep,
      <<"bash_command", ArgsLsNope>>,
      <<"bash_command", ArgsNotJSON>>,
      <<"bash_command", ArgsEmptyObject>>,
      <<"bash_command", ArgsCommandNumber>>,
      <<"bash_command", ArgsCommandEmpty>>,
      <<"bash_command", ArgsCommandBlank>>,
      <<"bash_command", ArgsBlankBackground>>,
      <<"list_processes", ArgsEmptyObject>>,
      <<"kill_process", ArgsNotJSON>>,
      <<"kill_process", ArgsEmptyObject>>,
      <<"kill_process", ArgsPidText>>,
      <<"kill_process", ArgsPidUnknown>>,
      <<"kill_process", ArgsPidFirst>>,
      <<"read_file", ArgsEmptyObject>> }

\* The tool calls of one response, with identifiers from n on.
Calls(requests, n) ==
    [i \in 1..Len(requests) |-> ToolCall(CallID(n + i - 1), requests[i][1], requests[i][2])]

\* Responses with one tool call of any kind, and with two: any kind before or
\* after a plain command, and a background start followed by a list or by a
\* kill of any kind.
VariedRequests ==
    {<<r>> : r \in ToolRequests}
        \cup {<<r, BashLs>> : r \in ToolRequests}
        \cup {<<BashLs, r>> : r \in ToolRequests}
        \cup {<<StartSleep, r>> : r \in {q \in ToolRequests : q[1] # "bash_command"
                                                              /\ q[1] # "read_file"}}

\* What the LLM can answer: an error, a final message, one plain command, and
\* (while varied) any of VariedRequests.
Replies(varied, n) ==
    {ErrorReply, Completion("done", <<>>), Completion("", Calls(<<BashLs>>, n))}
        \cup (IF varied
              THEN {Completion("", Calls(requests, n)) : requests \in VariedRequests}
              ELSE {})

\* What a send returned: the message list (nil is the empty list) and whether
\* the error is non-nil.
NoResult == [done |-> FALSE, messages |-> <<>>, err |-> FALSE]
Returned(messages, err) == [done |-> TRUE, messages |-> messages, err |-> err]

NoMessage == Message("", "", <<>>, "")

\* ------------------------------------------------------- inputs of SpecPM

\* The conversations that start background commands.
Conversations == {"conv-1", "conv-2"}

\* The background command of SpecPM.
SleepCommand == "sleep 60"

\* The pids of the modelled process table.
PidPool == FirstPid..(FirstPid + NumPids - 1)

\* What a call of the supervisor returned: the method, the pid or conversation
\* it was about (the pid of the record for StartProcess), the error text ("" is
\* nil) and, for ListProcesses, the slice.
PMResult(op, pid, conversationID, err, list) ==
    [op |-> op, pid |-> pid, conversationID |-> conversationID, err |-> err,
     list |-> list]

\* No call of the supervisor has just returned.
NoCall == PMResult("none", 0, "", "", <<>>)

\* ------------------------------------------------------------------ actions

\* Conversation.AddMessage
AddMessage(msg) ==
    /\ Messages' = Append(Messages, msg)

\* DB.SaveMessage: the transaction inserts the row, or fails and leaves the
\* table as it was; saved tells which.
SaveMessage(db, msg, saved) ==
    [db |-> IF saved THEN Append(db, msg) ELSE db, err |-> ~saved]

\* Mutant of AddMessageWithDB: the message is appended only once it is saved.
AddMessageWithDBSavedOnly(msgs, msg, db, saved) ==
    [Messages |-> IF saved THEN Append(msgs, msg) ELSE msgs,
     db |-> SaveMessage(db, msg, saved).db, err |-> SaveMessage(db, msg, saved).err]

\* Conversation.AddMessageWithDB: the append, then db.SaveMessage, whose error
\* is returned.
AddMessageWithDB(msgs, msg, db, saved) ==
    [Messages |-> Append(msgs, msg),
     db |-> SaveMessage(db, msg, saved).db, err |-> SaveMessage(db, msg, saved).err]

\* The outcomes of n calls of db.SaveMessage, of which at most left fail.
SaveOutcomes(n, left) ==
    {oks \in [1..n -> BOOLEAN] : Cardinality({k \in 1..n : ~oks[k]}) <= left}

\* AddMessageWithDB for each of new in turn, as the send calls it: the error is
\* logged and nothing else is done about it. errs counts the failed saves.
RECURSIVE AddMessagesWithDB(_, _, _, _)
AddMessagesWithDB(msgs, db, new, oks) ==
    IF new = <<>>
    THEN [Messages |-> msgs, db |-> db, errs |-> 0]
    ELSE LET one == AddMessageWithDB(msgs, new[1], db, oks[1])
             rest == AddMessagesWithDB(one.Messages, one.db, Tail(new), Tail(oks))
         IN  [rest EXCEPT !.errs = @ + (IF one.err THEN 1 ELSE 0)]

\* The send appends the messages of new to the log and saves them.
AppendAndSave(new) ==
    \E oks \in SaveOutcomes(Len(new), saveFailuresLeft) :
        LET added == AddMessagesWithDB(Messages, dbMessages, new, oks)
        IN  /\ Messages' = added.Messages
            /\ dbMessages' = added.db
            /\ saveFailuresLeft' = saveFailuresLeft - added.errs

\* Two goroutines call ListProcesses (two requests for /processes, or a
\* request and a list_processes tool call).
Listers == {1, 2}

\* A goroutine outside ListProcesses: at is its position, order the order in
\* which its range visits the keys, i the position of the range, list the
\* slice it has built.
ListerIdle == [at |-> "idle", order |-> <<>>, i |-> 0, list |-> <<>>]

\* No streaming request yet: handler is the position of
\* handleSendMessageStream, worker that of the goroutine it starts, ctxDone
\* whether r.Context() is done, keepalives the comments written.
StreamIdle == [handler |-> "idle", worker |-> "idle", ctxDone |-> FALSE,
               keepalives |-> 0]

\* Two goroutines ask the engine for a conversation (two requests).
Getters == {1, 2}

\* A goroutine outside GetConversation and GetOrCreateConversation: op is the
\* function it is in, id its conversationID, conv the object it holds.
GetterIdle == [at |-> "idle", op |-> "", id |-> "", conv |-> 0]

\* The goroutine of ListConversation outside its range; list is the slice its
\* last call returned.
RangeIdle == [at |-> "idle", order |-> <<>>, i |-> 0, list |-> <<>>]

\* Two requests for one conversation are served at the same time, each by
\* its own goroutine (net/http, and the goroutine of handleSendMessageStream).
Senders == {1, 2}

\* A goroutine that has entered SendUserMessageWithCallback: at is its
\* position, k counts the messages it has made, msg is the one it is
\* appending, seen the value of conv.Messages its append has read, ids the
\* identifiers it has given out.
SenderStarts == [at |-> "create", k |-> 1, msg |-> <<>>, seen |-> <<>>, ids |-> {}]

\* NewProcessManager, `go pm.setupCleanup()`: the goroutine exists and has not
\* run yet. at is its position, sigChan the number of signals buffered in its
\* channel (capacity 1), installs the number of signal.Notify calls, killAlls
\* the number of KillAll calls it made, signals the signals delivered so far.
CleanupSpawned ==
    [at |-> "spawned", sigChan |-> 0, installs |-> 0, killAlls |-> 0, signals |-> 0]

\* Mutant of Callback: the callback is not invoked.
CallbackSkipped(log, msgs) == log

\* if callback != nil { callback(&msg) }, for each of msgs in order; log is
\* the sequence of the messages the callback was invoked with.
Callback(log, msgs) == log \o msgs

InitCommon ==
    /\ Messages = <<>>
    /\ openaiMessages = <<>>
    /\ isRendered = FALSE
    /\ pc = "idle"
    /\ paramsMessages = <<>>
    /\ llmReply = NoReply
    /\ userMessage = NoMessage
    /\ responseMessage = NoMessage
    /\ toolCalls = <<>>
    /\ iteration = 0
    /\ idx = 0
    /\ processedToolCallIDs = {}
    /\ allNewMessages = <<>>
    /\ result = NoResult
    /\ llmCalls = 0
    /\ delivered = <<>>
    /\ cancelled = FALSE
    /\ dbMessages = <<>>
    /\ processes = <<>>
    /\ running = {}
    /\ zombies = {}
    /\ nextPid = FirstPid
    /\ watchers = <<>>
    /\ executed = {}
    /\ signalled = {}
    /\ pmResult = NoCall
    /\ nextCallID = 1
    /\ cleanup = CleanupSpawned
    /\ senders = [s \in Senders |-> SenderStarts]
    /\ clock = FirstClock
    /\ listers = [c \in Listers |-> ListerIdle]
    /\ conversations = << >>
    /\ convDB = {}
    /\ allocated = 0
    /\ getters = [g \in Getters |-> GetterIdle]
    /\ ranging = RangeIdle
    /\ returned = {}
    /\ messagesTable = <<>>
    /\ toolCallsTable = <<>>
    /\ dbNow = 0
    /\ loaded = <<>>
    /\ stream = StreamIdle

\* One send, whose first VariedRounds responses are drawn from VariedRequests.
Init ==
    /\ InitCommon
    /\ sendsLeft = 1
    /\ variedLeft = VariedRounds
    /\ saveFailuresLeft = 0

\* MaxSends sends, every response drawn from the plain ones.
InitSends ==
    /\ InitCommon
    /\ sendsLeft = MaxSends
    /\ variedLeft = 0
    /\ saveFailuresLeft = 0

\* One send with plain responses, during which saves to the database fail.
InitDB ==
    /\ InitCommon
    /\ sendsLeft = 1
    /\ variedLeft = 0
    /\ saveFailuresLeft = MaxSaveFailures

\* A caller appends any message to the log.
AppendAny ==
    /\ Len(Messages) < MaxLog
    /\ \E msg \in AnyMessage : AddMessage(msg)
    /\ openaiMessages' = <<>>
    /\ isRendered' = FALSE
    /\ UNCHANGED <<streamVars, tableVars, convVars,
                   lockVars, concurrentVars, shutdownVars, sendVars, processVars>>

\* A caller renders the log.
Render ==
    /\ ~isRendered
    /\ \E out \in ToOpenAIMessages(Messages) : openaiMessages' = out
    /\ isRendered' = TRUE
    /\ UNCHANGED <<streamVars, tableVars, convVars, lockVars,
                   concurrentVars, shutdownVars, Messages, sendVars, processVars>>

\* The user message of a send.
UserMessage(content) == Message("user", content, <<>>, "")

\* sendUserMessageToLLM / the loop: the assistant message made of a completion.
AssistantMessage(reply) == Message("assistant", reply.Content, reply.ToolCalls, "")

\* The tool message that answers a tool call.
ToolMessage(toolCall, output) == Message("tool", output, <<>>, toolCall.ID)

\* Mutant of LoopContinues: the bound is twice maxIterations.
LoopContinuesTwiceAsLong(calls, iter) == Len(calls) > 0 /\ iter < 2 * MaxIterations

\* Mutant of LoopContinues: the bound is off by one.
LoopContinuesOffByOne(calls, iter) == Len(calls) > 0 /\ iter <= MaxIterations

\* executeLLMRequestedToolCalls: the condition of the for loop.
LoopContinues(calls, iter) == Len(calls) > 0 /\ iter < MaxIterations

\* Mutant of ReturnedMessages: the user message is left out.
ReturnedMessagesNoUser(user, response, toolMessages) == <<response>> \o toolMessages

\* SendUserMessageWithCallback: the list returned on success.
ReturnedMessages(user, response, toolMessages) == <<user, response>> \o toolMessages

\* Mutant of MissingResponses: the test of processedToolCallIDs is inverted.
MissingResponsesInverted(calls, processed) ==
    SelectSeq(calls, LAMBDA c : c.ID \in processed)

\* executeLLMRequestedToolCalls: the tool calls of the round that got no
\* response and are answered by an error message.
MissingResponses(calls, processed) ==
    SelectSeq(calls, LAMBDA c : c.ID \notin processed)

ErrorMessages(calls) ==
    [i \in 1..Len(calls) |->
        Message("tool", "Error: tool call " \o calls[i].ID \o " was not processed",
                <<>>, calls[i].ID)]

\* The second walk in executeLLMRequestedToolCalls, over the rendering: an
\* assistant message adds its identifiers to the pending set and a tool
\* message deletes its own.
PendingStep(pending, m) ==
    LET added == IF m.role = "assistant" /\ Len(m.tool_calls) > 0
                 THEN pending \cup {m.tool_calls[j].ID : j \in 1..Len(m.tool_calls)}
                 ELSE pending
    IN  IF m.role = "tool" THEN added \ {m.tool_call_id} ELSE added

RECURSIVE PendingRange(_, _, _, _)
PendingRange(out, lo, hi, pending) ==
    IF lo > hi THEN pending
    ELSE IF lo = hi THEN PendingStep(pending, out[lo])
    ELSE LET firstHalf == PendingRange(out, lo, (lo + hi) \div 2, pending)
         IN  IF firstHalf = {} THEN PendingRange(out, ((lo + hi) \div 2) + 1, hi, {})
             ELSE PendingRange(out, ((lo + hi) \div 2) + 1, hi, firstHalf)

PendingAfter(out) == PendingRange(out, 1, Len(out), {})

\* The error tool message the loop appends to the request for an identifier.
LoopErrorToolMsg(toolCallID) ==
    OpenAIMessage("tool", "Error: missing tool response for tool_call_id " \o toolCallID,
                  <<>>, toolCallID)

\* The message sequences the loop can send for a log: a rendering, plus error
\* tool messages for what the second walk finds pending.
LoopRequests(msgs) ==
    UNION {{out \o [i \in 1..Len(o) |-> LoopErrorToolMsg(o[i])]
            : o \in MapOrders(PendingAfter(out))}
           : out \in ToOpenAIMessages(msgs)}

\* SendUserMessageWithCallback up to the first LLM call: the user message is
\* appended and the rendering of the log is sent (sendUserMessageToLLM).
SendUserMessage ==
    /\ pc = "idle"
    /\ sendsLeft > 0
    /\ sendsLeft' = sendsLeft - 1
    /\ userMessage' = UserMessage("hi")
    /\ AppendAndSave(<<userMessage'>>)
    /\ \E out \in ToOpenAIMessages(Messages') : paramsMessages' = out
    /\ llmReply' = NoReply
    /\ pc' = "awaitFirst"
    /\ result' = NoResult
    /\ responseMessage' = NoMessage
    /\ toolCalls' = <<>>
    /\ iteration' = 0
    /\ idx' = 0
    /\ processedToolCallIDs' = {}
    /\ allNewMessages' = <<>>
    /\ delivered' = Callback(<<>>, <<userMessage'>>)
    /\ llmCalls' = 1
    /\ cancelled' = FALSE
    /\ UNCHANGED <<streamVars, tableVars, convVars, lockVars,
                   concurrentVars, shutdownVars, renderVars, processVars, nextCallID,
                   variedLeft>>

\* The LLM answers the call in flight (client.Chat.Completions.New returns).
LLMCompletes ==
    /\ pc \in {"awaitFirst", "awaitLoop"}
    /\ llmReply = NoReply
    /\ \E reply \in Replies(variedLeft > 0, nextCallID) :
          /\ llmReply' = reply
          /\ nextCallID' = nextCallID + Len(reply.ToolCalls)
    /\ variedLeft' = IF variedLeft > 0 THEN variedLeft - 1 ELSE 0
    /\ UNCHANGED <<streamVars, tableVars, convVars, lockVars,
                   concurrentVars, shutdownVars, Messages, renderVars, processVars, pc,
                   paramsMessages,
                   userMessage,
                   responseMessage, toolCalls, iteration, idx, processedToolCallIDs,
                   allNewMessages, result, llmCalls, delivered, cancelled, dbMessages,
                   saveFailuresLeft, sendsLeft>>

\* Mutant of LLMFailed: the error of the LLM call is ignored.
LLMFailedIgnored(reply) == FALSE

\* err != nil after client.Chat.Completions.New
LLMFailed(reply) == reply.state = "error"

\* SendUserMessageWithCallback after the first LLM call: return the error, or
\* append the assistant message and either return or enter the loop of
\* executeLLMRequestedToolCalls.
FirstReply ==
    /\ pc = "awaitFirst"
    /\ llmReply # NoReply
    /\ IF LLMFailed(llmReply)
       THEN /\ result' = Returned(<<>>, TRUE)
            /\ pc' = "idle"
            /\ UNCHANGED <<Messages, responseMessage, toolCalls, iteration, idx,
                           delivered, dbMessages, saveFailuresLeft>>
       ELSE /\ responseMessage' = AssistantMessage(llmReply)
            /\ AppendAndSave(<<responseMessage'>>)
            /\ delivered' = Callback(delivered, <<responseMessage'>>)
            /\ toolCalls' = llmReply.ToolCalls
            /\ IF Len(llmReply.ToolCalls) > 0 /\ LoopContinues(llmReply.ToolCalls, 0)
               THEN /\ iteration' = 1
                    /\ idx' = 1
                    /\ pc' = "tools"
                    /\ result' = NoResult
               ELSE /\ result' = Returned(
                           ReturnedMessages(userMessage, responseMessage', <<>>), FALSE)
                    /\ pc' = "idle"
                    /\ UNCHANGED <<iteration, idx>>
    /\ UNCHANGED <<streamVars, tableVars, convVars,
                   lockVars, concurrentVars, shutdownVars, renderVars, processVars,
                   paramsMessages, llmReply,
                   userMessage, processedToolCallIDs, allNewMessages, llmCalls,
                   cancelled, nextCallID, sendsLeft, variedLeft>>

\* What the OS can answer to a tool call: whether cmd.Start() succeeds, for a
\* call that may start a command, and whether the process ends on SIGTERM,
\* for a call that may send it.
StartOutcomes(toolCall) ==
    IF toolCall.Name = "bash_command" /\ Unmarshal(toolCall.Arguments).background
    THEN BOOLEAN ELSE {TRUE}
SignalOutcomes(toolCall) == IF toolCall.Name = "kill_process" THEN BOOLEAN ELSE {TRUE}

\* One pass of the range over toolCalls: the call is executed and its tool
\* message appended; after the last call the round ends: error messages for
\* calls without response, the rendering, the second walk, the LLM call.
ExecuteTool ==
    /\ pc = "tools"
    /\ \E started \in StartOutcomes(toolCalls[idx]), dies \in SignalOutcomes(toolCalls[idx]),
          order \in MapOrders(DOMAIN processes) :
          LET toolCall == toolCalls[idx]
              outcome == ExecuteToolCall(toolCall, ConversationID, processes, running,
                                         zombies, nextPid, Len(watchers) + 1, started,
                                         dies, order)
              toolMessage == ToolMessage(toolCall, outcome.output)
              processed == processedToolCallIDs \cup {toolCall.ID}
              errors == ErrorMessages(MissingResponses(toolCalls, processed))
          IN  /\ processes' = outcome.processes
              /\ running' = outcome.running
              /\ zombies' = outcome.zombies
              /\ nextPid' = outcome.nextPid
              /\ watchers' = watchers \o outcome.spawned
              /\ executed' = outcome.executed
              /\ signalled' = outcome.signalled
              /\ IF idx < Len(toolCalls)
                 THEN /\ AppendAndSave(<<toolMessage>>)
                      /\ allNewMessages' = Append(allNewMessages, toolMessage)
                      /\ processedToolCallIDs' = processed
                      /\ delivered' = Callback(delivered, <<toolMessage>>)
                      /\ idx' = idx + 1
                      /\ UNCHANGED <<pc, paramsMessages, llmReply, llmCalls>>
                 ELSE /\ AppendAndSave(<<toolMessage>> \o errors)
                      /\ allNewMessages' = Append(allNewMessages, toolMessage) \o errors
                      /\ processedToolCallIDs' = {}
                      /\ idx' = 0
                      /\ \E request \in LoopRequests(Messages') : paramsMessages' = request
                      /\ delivered' = Callback(delivered, <<toolMessage>> \o errors)
                      /\ llmReply' = NoReply
                      /\ llmCalls' = llmCalls + 1
                      /\ pc' = "awaitLoop"
    /\ UNCHANGED <<streamVars, tableVars, convVars,
                   lockVars, concurrentVars, shutdownVars, renderVars, userMessage,
                   responseMessage, toolCalls,
                   iteration, result, cancelled, nextCallID, sendsLeft, variedLeft,
                   pmResult>>

\* executeLLMRequestedToolCalls after the LLM call of a round: return the
\* error, or append the assistant message and either start the next round or
\* leave the loop and return.
LoopReply ==
    /\ pc = "awaitLoop"
    /\ llmReply # NoReply
    /\ IF LLMFailed(llmReply)
       THEN /\ result' = Returned(<<>>, TRUE)
            /\ pc' = "idle"
            /\ UNCHANGED <<Messages, toolCalls, iteration, idx, allNewMessages,
                           delivered, dbMessages, saveFailuresLeft>>
       ELSE LET assistantMessage == AssistantMessage(llmReply)
            IN  /\ toolCalls' = llmReply.ToolCalls
                /\ AppendAndSave(<<assistantMessage>>)
                /\ allNewMessages' = Append(allNewMessages, assistantMessage)
                /\ delivered' = Callback(delivered, <<assistantMessage>>)
                /\ IF Len(llmReply.ToolCalls) # 0
                        /\ LoopContinues(llmReply.ToolCalls, iteration)
                   THEN /\ iteration' = iteration + 1
                        /\ idx' = 1
                        /\ pc' = "tools"
                        /\ result' = NoResult
                   ELSE /\ result' = Returned(
                               ReturnedMessages(userMessage, responseMessage,
                                                allNewMessages'), FALSE)
                        /\ pc' = "idle"
                        /\ UNCHANGED <<iteration, idx>>
    /\ UNCHANGED <<streamVars, tableVars, convVars,
                   lockVars, concurrentVars, shutdownVars, renderVars, processVars,
                   paramsMessages, llmReply,
                   userMessage, responseMessage, processedToolCallIDs, llmCalls,
                   cancelled, nextCallID, sendsLeft, variedLeft>>

\* The variables of the conversation and the send, which no call of the
\* supervisor touches.
engineVars == <<Messages, renderVars, sendVars>>

\* No send is made in SpecPM.
InitPM ==
    /\ InitCommon
    /\ sendsLeft = 0
    /\ variedLeft = 0
    /\ saveFailuresLeft = 0

\* StartProcess up to cmd.Start(): the start fails, or the OS runs the command
\* under a pid that is free in the process table.
StartProcessBegin ==
    /\ Len(watchers) < MaxStarts
    /\ \E conversationID \in Conversations :
          \/ /\ pmResult' = PMResult("start", 0, "",
                     StartProcess(SleepCommand, conversationID, processes, running,
                                  nextPid, Len(watchers) + 1, FALSE).err, <<>>)
             /\ executed' = {}
             /\ UNCHANGED <<running, watchers>>
          \/ \E pid \in PidPool \ (running \cup zombies) :
                /\ running' = running \cup {pid}
                /\ watchers' = Append(watchers,
                                      Watcher(pid, SleepCommand, conversationID, "start"))
                /\ executed' = {SleepCommand}
                /\ pmResult' = NoCall
    /\ signalled' = {}
    /\ UNCHANGED <<streamVars, tableVars, convVars, lockVars,
                   concurrentVars, shutdownVars, engineVars, processes, zombies, nextPid>>

\* StartProcess from the mutex on: the record is stored, the exit-watcher is
\* spawned and the record returned.
StartProcessStore(i) ==
    /\ watchers[i].at = "start"
    /\ processes' = Register(processes,
                             ProcessInfo(watchers[i].PID, watchers[i].Command, i,
                                         watchers[i].ConversationID))
    /\ watchers' = [watchers EXCEPT ![i].at = "wait", ![i].ConversationID = ""]
    /\ pmResult' = PMResult("start", watchers[i].PID, "", "", <<>>)
    /\ executed' = {}
    /\ signalled' = {}
    /\ UNCHANGED <<streamVars, tableVars, convVars, lockVars,
                   concurrentVars, shutdownVars, engineVars, running, zombies, nextPid>>

\* A running process ends: by itself, or after a signal it took.
ProcessExits ==
    /\ \E pid \in running :
          /\ running' = running \ {pid}
          /\ zombies' = zombies \cup {pid}
    /\ pmResult' = NoCall
    /\ executed' = {}
    /\ signalled' = {}
    /\ UNCHANGED <<streamVars, tableVars, convVars,
                   lockVars, concurrentVars, shutdownVars, engineVars, processes, nextPid,
                   watchers>>

\* The exit-watcher: cmd.Wait() returns once the process ended; the pid leaves
\* the process table.
WatcherWaitReturns(i) ==
    /\ watchers[i].at = "wait"
    /\ watchers[i].PID \in zombies
    /\ zombies' = zombies \ {watchers[i].PID}
    /\ watchers' = [watchers EXCEPT ![i].at = "lock"]
    /\ pmResult' = NoCall
    /\ executed' = {}
    /\ signalled' = {}
    /\ UNCHANGED <<streamVars, tableVars, convVars, lockVars,
                   concurrentVars, shutdownVars, engineVars, processes, running, nextPid>>

\* Mutant of WatcherRemoves: the watcher leaves the registry alone.
WatcherKeeps(procs, pid) == procs

\* The exit-watcher, lines 75-77: the key is deleted under the mutex.
WatcherRemoves(procs, pid) == MapDelete(procs, pid)

WatcherDeletes(i) ==
    /\ watchers[i].at = "lock"
    /\ processes' = WatcherRemoves(processes, watchers[i].PID)
    /\ watchers' = [watchers EXCEPT ![i] = Watcher(0, watchers[i].Command, "", "done")]
    /\ pmResult' = NoCall
    /\ executed' = {}
    /\ signalled' = {}
    /\ UNCHANGED <<streamVars, tableVars, convVars, lockVars,
                   concurrentVars, shutdownVars, engineVars, running, zombies, nextPid>>

\* A caller lists the processes.
CallListProcesses ==
    /\ \E order \in MapOrders(DOMAIN processes) :
          LET listing == ListProcesses(processes, running \cup zombies, order)
          IN  /\ processes' = listing.processes
              /\ pmResult' = PMResult("list", 0, "", "", listing.list)
    /\ executed' = {}
    /\ signalled' = {}
    /\ UNCHANGED <<streamVars, tableVars, convVars, lockVars,
                   concurrentVars, shutdownVars, engineVars, running, zombies, nextPid,
                   watchers>>

\* A caller kills a pid.
CallKillProcess ==
    /\ \E pid \in PidPool, dies \in BOOLEAN :
          LET killed == KillProcess(pid, processes, running, zombies, dies)
          IN  /\ processes' = killed.processes
              /\ running' = killed.running
              /\ zombies' = killed.zombies
              /\ signalled' = killed.signalled
              /\ pmResult' = PMResult("kill", pid, "", killed.err, <<>>)
    /\ executed' = {}
    /\ UNCHANGED <<streamVars, tableVars, convVars,
                   lockVars, concurrentVars, shutdownVars, engineVars, nextPid, watchers>>

\* The cleanup at shutdown kills every process.
CallKillAll ==
    /\ LET killed == KillAll(processes, running, zombies)
       IN  /\ processes' = killed.processes
           /\ running' = killed.running
           /\ zombies' = killed.zombies
           /\ signalled' = killed.signalled
    /\ pmResult' = PMResult("killAll", 0, "", "", <<>>)
    /\ executed' = {}
    /\ UNCHANGED <<streamVars, tableVars, convVars,
                   lockVars, concurrentVars, shutdownVars, engineVars, nextPid, watchers>>

\* A caller kills the processes of a conversation.
CallKillByConversation ==
    /\ \E conversationID \in Conversations :
          LET killed == KillByConversation(conversationID, processes, running, zombies)
          IN  /\ processes' = killed.processes
              /\ running' = killed.running
              /\ zombies' = killed.zombies
              /\ signalled' = killed.signalled
              /\ pmResult' = PMResult("killByConversation", 0, conversationID, "", <<>>)
    /\ executed' = {}
    /\ UNCHANGED <<streamVars, tableVars, convVars,
                   lockVars, concurrentVars, shutdownVars, engineVars, nextPid, watchers>>

\* The steps of the exit-watchers.
WatcherStep == \E i \in 1..Len(watchers) : WatcherWaitReturns(i) \/ WatcherDeletes(i)

NextPM ==
    \/ StartProcessBegin
    \/ \E i \in 1..Len(watchers) : StartProcessStore(i)
    \/ ProcessExits
    \/ WatcherStep
    \/ CallListProcesses
    \/ CallKillProcess
    \/ CallKillAll
    \/ CallKillByConversation

\* --------------------------------------------------------------- shutdown

\* The program runs: neither os.Exit was called nor a signal ended it.
ProgramRuns == cleanup.at \notin {"exited", "terminated"}

\* setupCleanup, lines 38-39: the channel is made and registered for
\* os.Interrupt and SIGTERM; the goroutine then blocks on the receive.
SetupCleanupNotify ==
    /\ cleanup.at = "spawned"
    /\ cleanup' = [cleanup EXCEPT !.at = "waiting", !.installs = @ + 1]
    /\ UNCHANGED <<streamVars, tableVars,
                   convVars, lockVars, concurrentVars, engineVars, processVars>>

\* The OS delivers an interrupt or termination signal to the program. Before
\* signal.Notify the signal has its default effect and ends the program; after
\* it the runtime sends on sigChan without blocking, so a signal that finds
\* the buffer full is dropped.
Signal ==
    /\ ProgramRuns
    /\ cleanup.signals < MaxSignals
    /\ cleanup' = IF cleanup.at = "spawned"
                  THEN [cleanup EXCEPT !.at = "terminated", !.signals = @ + 1]
                  ELSE [cleanup EXCEPT !.sigChan = 1, !.signals = @ + 1]
    /\ UNCHANGED <<streamVars, tableVars,
                   convVars, lockVars, concurrentVars, engineVars, processVars>>

\* setupCleanup, line 40: <-sigChan
SetupCleanupReceive ==
    /\ cleanup.at = "waiting"
    /\ cleanup.sigChan > 0
    /\ cleanup' = [cleanup EXCEPT !.at = "received", !.sigChan = @ - 1]
    /\ UNCHANGED <<streamVars, tableVars,
                   convVars, lockVars, concurrentVars, engineVars, processVars>>

\* setupCleanup, line 43: pm.KillAll()
SetupCleanupKillAll ==
    /\ cleanup.at = "received"
    /\ LET killed == KillAll(processes, running, zombies)
       IN  /\ processes' = killed.processes
           /\ running' = killed.running
           /\ zombies' = killed.zombies
           /\ signalled' = killed.signalled
    /\ pmResult' = PMResult("killAll", 0, "", "", <<>>)
    /\ executed' = {}
    /\ cleanup' = [cleanup EXCEPT !.at = "killed", !.killAlls = @ + 1]
    /\ UNCHANGED <<streamVars, tableVars,
                   convVars, lockVars, concurrentVars, engineVars, nextPid, watchers>>

\* setupCleanup, line 44: os.Exit(0)
SetupCleanupExit ==
    /\ cleanup.at = "killed"
    /\ cleanup' = [cleanup EXCEPT !.at = "exited"]
    /\ UNCHANGED <<streamVars, tableVars,
                   convVars, lockVars, concurrentVars, engineVars, processVars>>

\* The program with its shutdown handler: commands are started and end, their
\* exit-watchers run, and signals arrive; the goroutines of the program take
\* steps only while the program runs.
NextShutdown ==
    \/ ProgramRuns /\ StartProcessBegin
    \/ ProgramRuns /\ \E i \in 1..Len(watchers) : StartProcessStore(i)
    \/ ProgramRuns /\ WatcherStep
    \/ ProcessExits
    \/ Signal
    \/ SetupCleanupNotify
    \/ SetupCleanupReceive
    \/ SetupCleanupKillAll
    \/ SetupCleanupExit

\* ------------------------------------------------- the lock of the registry

\* The goroutines that hold pm.mutex for reading.
ReadLockHolders == {c \in Listers : listers[c].at = "range"}

\* The runtime has stopped the program: concurrent map iteration and map write.
Fatal == \E c \in Listers : listers[c].at = "fatal"

\* ListProcesses, lines 86-89: pm.mutex.RLock() and the start of the range
\* over the map, in one of its orders.
ListRLock(c) ==
    /\ ~Fatal
    /\ listers[c].at = "idle"
    /\ \E order \in MapOrders(DOMAIN processes) :
          listers' = [listers EXCEPT ![c] = [at |-> "range", order |-> order,
                                            i |-> 1, list |-> <<>>]]
    /\ pmResult' = NoCall
    /\ executed' = {}
    /\ signalled' = {}
    /\ UNCHANGED <<streamVars, tableVars,
                   convVars, shutdownVars, concurrentVars, engineVars, processes, running,
                   zombies, nextPid, watchers>>

\* ListProcesses, lines 90-101: one pass of the range. A key deleted since the
\* range began is not produced; a record whose process answers signal 0 is
\* listed; any other is deleted from the map, under the read lock. A delete
\* while another goroutine ranges over the map is a data race: the delete is
\* done, or the runtime detects it and stops the program.
ListVisit(c) ==
    /\ ~Fatal
    /\ listers[c].at = "range"
    /\ listers[c].i <= Len(listers[c].order)
    /\ LET pid == listers[c].order[listers[c].i]
       IN  IF pid \notin DOMAIN processes
           THEN /\ listers' = [listers EXCEPT ![c].i = @ + 1]
                /\ signalled' = {}
                /\ UNCHANGED processes
           ELSE IF Probe(pid, running \cup zombies)
           THEN /\ listers' = [listers EXCEPT ![c].i = @ + 1,
                                              ![c].list = Append(@, processes[pid])]
                /\ signalled' = {pid}
                /\ UNCHANGED processes
           ELSE /\ signalled' = {pid}
                /\ \/ /\ processes' = MapDelete(processes, pid)
                      /\ listers' = [listers EXCEPT ![c].i = @ + 1]
                   \/ /\ ReadLockHolders # {c}
                      /\ listers' = [listers EXCEPT ![c].at = "fatal"]
                      /\ UNCHANGED processes
    /\ pmResult' = NoCall
    /\ executed' = {}
    /\ UNCHANGED <<streamVars, tableVars, convVars,
                   shutdownVars, concurrentVars, engineVars, running, zombies, nextPid,
                   watchers>>

\* ListProcesses, lines 104 and 87: the slice is returned and the deferred
\* pm.mutex.RUnlock() runs.
ListRUnlock(c) ==
    /\ ~Fatal
    /\ listers[c].at = "range"
    /\ listers[c].i > Len(listers[c].order)
    /\ pmResult' = PMResult("list", 0, "", "", listers[c].list)
    /\ listers' = [listers EXCEPT ![c] = ListerIdle]
    /\ executed' = {}
    /\ signalled' = {}
    /\ UNCHANGED <<streamVars, tableVars,
                   convVars, shutdownVars, concurrentVars, engineVars, processes, running,
                   zombies, nextPid, watchers>>

\* pm.mutex.Lock() succeeds: no goroutine holds the mutex for reading (the
\* sections under the write lock are single steps).
CanLock == ReadLockHolders = {}

\* The supervisor with ListProcesses taken step by step: commands are started
\* and end, their exit-watchers run, and the goroutines of Listers list.
NextLock ==
    \/ ~Fatal /\ StartProcessBegin
    \/ ~Fatal /\ CanLock /\ \E i \in 1..Len(watchers) : StartProcessStore(i)
    \/ ProcessExits
    \/ ~Fatal /\ \E i \in 1..Len(watchers) : WatcherWaitReturns(i)
    \/ ~Fatal /\ CanLock /\ \E i \in 1..Len(watchers) : WatcherDeletes(i)
    \/ \E c \in Listers : ListRLock(c) \/ ListVisit(c) \/ ListRUnlock(c)

\* ------------------------------------------------- the map of conversations

\* e.conversations[conversationID]: nil (0) for an identifier not in the map.
Lookup(m, id) == IF id \in DOMAIN m THEN m[id] ELSE 0

\* The runtime has stopped the program: concurrent map iteration and map write.
ConvFatal == ranging.at = "fatal"

\* The call returns conv for id.
Returns(g, id, conv) ==
    /\ getters' = [getters EXCEPT ![g] = GetterIdle]
    /\ returned' = returned \cup {<<id, conv>>}

\* GetConversation, lines 374-376, and GetOrCreateConversation, lines 407-413:
\* the map is read under the read lock; an object found is returned.
GetRead(g, op, id) ==
    /\ ~ConvFatal
    /\ getters[g].at = "idle"
    /\ IF Lookup(conversations, id) # 0
       THEN Returns(g, id, Lookup(conversations, id))
       ELSE /\ getters' = [getters EXCEPT ![g] =
                             [at |-> "load", op |-> op, id |-> id, conv |-> 0]]
            /\ UNCHANGED returned
    /\ UNCHANGED <<streamVars, tableVars,
                   lockVars, shutdownVars, concurrentVars, engineVars, processVars,
                   conversations, convDB, allocated, ranging>>

\* db.LoadConversation (part_003, lines 168-268): nil for an identifier without
\* a row in conversations, otherwise a new object built from the rows.
\* GetConversation returns nil for the former, GetOrCreateConversation goes on
\* to create the conversation.
GetLoad(g) ==
    /\ ~ConvFatal
    /\ getters[g].at = "load"
    /\ IF getters[g].id \in convDB
       THEN /\ allocated' = allocated + 1
            /\ getters' = [getters EXCEPT ![g].at = "store", ![g].conv = allocated + 1]
            /\ UNCHANGED returned
       ELSE /\ IF getters[g].op = "GetConversation"
               THEN Returns(g, getters[g].id, 0)
               ELSE /\ getters' = [getters EXCEPT ![g].at = "create"]
                    /\ UNCHANGED returned
            /\ UNCHANGED allocated
    /\ UNCHANGED <<streamVars, tableVars,
                   lockVars, shutdownVars, concurrentVars, engineVars, processVars,
                   conversations, convDB, ranging>>

\* GetOrCreateConversation, lines 429-438: a new Conversation is allocated and
\* saved to the database.
GetCreate(g) ==
    /\ ~ConvFatal
    /\ getters[g].at = "create"
    /\ allocated' = allocated + 1
    /\ convDB' = convDB \cup {getters[g].id}
    /\ getters' = [getters EXCEPT ![g].at = "store", ![g].conv = allocated + 1]
    /\ UNCHANGED <<streamVars, tableVars,
                   lockVars, shutdownVars, concurrentVars, engineVars, processVars,
                   conversations, ranging, returned>>

\* GetConversation, lines 386-389, and GetOrCreateConversation, lines 421-425
\* and 440-444: the object is stored in the map under the write lock, whatever
\* the map holds by now, and returned. A store while ListConversation ranges
\* over the map is a data race: the store is done, or the runtime detects it
\* and stops the program.
GetStore(g) ==
    /\ ~ConvFatal
    /\ getters[g].at = "store"
    /\ \/ /\ conversations' =
                (getters[g].id :> getters[g].conv) @@ conversations
          /\ Returns(g, getters[g].id, getters[g].conv)
          /\ UNCHANGED ranging
       \/ /\ ranging.at = "range"
          /\ ranging' = [ranging EXCEPT !.at = "fatal"]
          /\ UNCHANGED <<conversations, getters, returned>>
    /\ UNCHANGED <<streamVars, tableVars,
                   lockVars, shutdownVars, concurrentVars, engineVars, processVars,
                   convDB, allocated>>

\* ListConversation, lines 397-398: the range over the map begins, in one of
\* its orders; no lock is taken.
ListConversationBegin ==
    /\ ranging.at = "idle"
    /\ \E order \in MapOrders(DOMAIN conversations) :
          ranging' = [at |-> "range", order |-> order, i |-> 1, list |-> <<>>]
    /\ UNCHANGED <<streamVars, tableVars,
                   lockVars, shutdownVars, concurrentVars, engineVars, processVars,
                   conversations, convDB, allocated, getters, returned>>

\* ListConversation, lines 398-400: one pass of the range.
ListConversationVisit ==
    /\ ranging.at = "range"
    /\ ranging.i <= Len(ranging.order)
    /\ ranging' = [ranging EXCEPT !.i = @ + 1,
                                  !.list = Append(@, conversations[ranging.order[ranging.i]])]
    /\ UNCHANGED <<streamVars, tableVars,
                   lockVars, shutdownVars, concurrentVars, engineVars, processVars,
                   conversations, convDB, allocated, getters, returned>>

\* ListConversation, line 402: the slice is returned.
ListConversationReturn ==
    /\ ranging.at = "range"
    /\ ranging.i > Len(ranging.order)
    /\ ranging' = [RangeIdle EXCEPT !.list = ranging.list]
    /\ UNCHANGED <<streamVars, tableVars,
                   lockVars, shutdownVars, concurrentVars, engineVars, processVars,
                   conversations, convDB, allocated, getters, returned>>

\* The requests that reach the map of conversations, each on its goroutine.
NextConversations ==
    \/ \E g \in Getters, id \in Conversations,
          op \in {"GetConversation", "GetOrCreateConversation"} : GetRead(g, op, id)
    \/ \E g \in Getters : GetLoad(g) \/ GetCreate(g) \/ GetStore(g)
    \/ ListConversationBegin
    \/ ListConversationVisit
    \/ ListConversationReturn

\* ------------------------------------------------------- the database tables

\* fmt.Sprintf("msg_%d", time.Now().UnixNano())
MessageID(now) == "msg_" \o ToString(now)

\* type Message struct {ID, Role, Content, ToolCalls, TollCallID}
MessageWithID(id, msg) == [ID |-> id] @@ msg

\* The messages one send saves, in the order of its appends: the user message,
\* an assistant message with two tool calls, and the two tool messages.
SavedScript ==
    LET calls == Calls(<<BashLs, BashLs>>, 1)
        msgs == <<UserMessage("hi"), AssistantMessage(Completion("", calls)),
                  ToolMessage(calls[1], executeBashCommand("ls").output),
                  ToolMessage(calls[2], executeBashCommand("ls").output)>>
    IN  [k \in 1..Len(msgs) |-> MessageWithID(MessageID(k), msgs[k])]

\* INSERT INTO messages (id, conversation_id, role, content, tool_call_id):
\* created_at takes its default, CURRENT_TIMESTAMP.
MessageRow(msg, now) ==
    [id |-> msg.ID, role |-> msg.Role, content |-> msg.Content,
     tool_call_id |-> msg.TollCallID, created_at |-> now]

\* INSERT INTO tool_calls (message_id, tool_call_id, type, name, arguments),
\* for each tool call of the message in turn.
ToolCallRows(msg) ==
    [i \in 1..Len(msg.ToolCalls) |->
        [message_id |-> msg.ID, tool_call_id |-> msg.ToolCalls[i].ID,
         type |-> msg.ToolCalls[i].Type, name |-> msg.ToolCalls[i].Name,
         arguments |-> msg.ToolCalls[i].Arguments]]

\* SELECT ... FROM messages ORDER BY created_at ASC: the orders in which the
\* rows may come back. The order of rows with equal created_at is not
\* determined by the query.
OrderByCreatedAt(rows) ==
    {o \in MapOrders(1..Len(rows)) :
        \A a, b \in 1..Len(rows) :
            a < b => rows[o[a]].created_at <= rows[o[b]].created_at}

\* SELECT ... FROM tool_calls WHERE message_id IN (...) ORDER BY id ASC, each
\* row appended to the ToolCalls of its message.
LoadToolCalls(calls, id) ==
    LET own == SelectSeq(calls, LAMBDA row : row.message_id = id)
    IN  [i \in 1..Len(own) |->
            [ID |-> own[i].tool_call_id, Type |-> own[i].type, Name |-> own[i].name,
             Arguments |-> own[i].arguments]]

\* db.LoadConversation: the messages of the conversation, for the order o of
\* the rows.
LoadConversation(rows, calls, o) ==
    [k \in 1..Len(rows) |->
        MessageWithID(rows[o[k]].id,
                      Message(rows[o[k]].role, rows[o[k]].content,
                              LoadToolCalls(calls, rows[o[k]].id),
                              rows[o[k]].tool_call_id))]

\* db.SaveMessage for the next message of the send: its row and the rows of
\* its tool calls are inserted in one transaction.
SaveMessageRows ==
    /\ Len(messagesTable) < Len(SavedScript)
    /\ LET msg == SavedScript[Len(messagesTable) + 1]
       IN  /\ messagesTable' = Append(messagesTable, MessageRow(msg, dbNow))
           /\ toolCallsTable' = toolCallsTable \o ToolCallRows(msg)
    /\ UNCHANGED <<streamVars,
                   convVars, lockVars, shutdownVars, concurrentVars, engineVars,
                   processVars, dbNow, loaded>>

\* A second passes.
SecondPasses ==
    /\ dbNow < MaxSeconds
    /\ dbNow' = dbNow + 1
    /\ UNCHANGED <<streamVars,
                   convVars, lockVars, shutdownVars, concurrentVars, engineVars,
                   processVars, messagesTable, toolCallsTable, loaded>>

\* The conversation is loaded from the database.
LoadConversationCall ==
    /\ \E o \in OrderByCreatedAt(messagesTable) :
          loaded' = LoadConversation(messagesTable, toolCallsTable, o)
    /\ UNCHANGED <<streamVars,
                   convVars, lockVars, shutdownVars, concurrentVars, engineVars,
                   processVars, messagesTable, toolCallsTable, dbNow>>

NextLoad == SaveMessageRows \/ SecondPasses \/ LoadConversationCall

\* ------------------------------------------------------ the streaming send

\* handleSendMessageStream, lines 165-223: the request is decoded, the
\* unbuffered channel done is made and the worker goroutine started; the
\* handler goes on to its select loop.
HandleStreamBegin ==
    /\ stream.handler = "idle"
    /\ stream' = [stream EXCEPT !.handler = "select", !.worker = "send"]
    /\ UNCHANGED <<tableVars, convVars, lockVars, shutdownVars, concurrentVars,
                   engineVars, processVars>>

\* The worker, line 213: a step of its SendUserMessageWithCallback call.
WorkerSends(step) ==
    /\ stream.worker = "send"
    /\ step

\* The worker, lines 213-222 and 209-211: the send has returned, the last
\* event is written and the deferred function reaches done <- true.
WorkerSendReturns ==
    /\ stream.worker = "send"
    /\ pc = "idle"
    /\ result.done
    /\ stream' = [stream EXCEPT !.worker = "done <- true"]
    /\ UNCHANGED <<tableVars, convVars, lockVars, shutdownVars, concurrentVars,
                   engineVars, processVars>>

\* The client closes the connection: net/http cancels the request's context.
ClientDisconnects ==
    /\ stream.handler = "select"
    /\ ~stream.ctxDone
    /\ stream' = [stream EXCEPT !.ctxDone = TRUE]
    /\ UNCHANGED <<tableVars, convVars, lockVars, shutdownVars, concurrentVars,
                   engineVars, processVars>>

\* The select, lines 229-230: case <-r.Context().Done(): return.
HandlerContextDone ==
    /\ stream.handler = "select"
    /\ stream.ctxDone
    /\ stream' = [stream EXCEPT !.handler = "returned"]
    /\ UNCHANGED <<tableVars, convVars, lockVars, shutdownVars, concurrentVars,
                   engineVars, processVars>>

\* The select, lines 231-232, and the worker's done <- true: the channel has
\* no buffer, so the send and the receive happen together; the handler
\* returns and the worker ends.
HandlerReceivesDone ==
    /\ stream.handler = "select"
    /\ stream.worker = "done <- true"
    /\ stream' = [stream EXCEPT !.handler = "returned", !.worker = "terminated"]
    /\ UNCHANGED <<tableVars, convVars, lockVars, shutdownVars, concurrentVars,
                   engineVars, processVars>>

\* The select, lines 233-235: the ticker fires and a keepalive is written.
Keepalive ==
    /\ stream.handler = "select"
    /\ stream.keepalives < MaxKeepalives
    /\ stream' = [stream EXCEPT !.keepalives = @ + 1]
    /\ UNCHANGED <<tableVars, convVars, lockVars, shutdownVars, concurrentVars,
                   engineVars, processVars>>

\* One streaming request: the handler, its worker and the client.
NextStream ==
    \/ HandleStreamBegin
    \/ WorkerSends(SendUserMessage)
    \/ WorkerSends(LLMCompletes)
    \/ WorkerSends(FirstReply)
    \/ WorkerSends(ExecuteTool)
    \/ WorkerSends(LoopReply)
    \/ WorkerSendReturns
    \/ ClientDisconnects
    \/ HandlerContextDone
    \/ HandlerReceivesDone
    \/ Keepalive

\* ------------------------------------------------------ concurrent sends

\* The messages the send of goroutine s makes, in order: the user message,
\* the assistant message of an LLM response with one tool call, whose
\* identifier differs between the sends, and the tool message that answers it.
SendScript(s) ==
    LET calls == Calls(<<BashLs>>, s)
    IN  <<UserMessage("hi"), AssistantMessage(Completion("", calls)),
          ToolMessage(calls[1], executeBashCommand("ls").output)>>

\* The message literal is built: its identifier is made of the current time.
CreateMessage(s) ==
    /\ senders[s].at = "create"
    /\ senders' = [senders EXCEPT ![s].at = "read",
                                  ![s].msg = MessageWithID(MessageID(clock),
                                                           SendScript(s)[senders[s].k]),
                                  ![s].ids = @ \cup {MessageID(clock)}]
    /\ UNCHANGED <<streamVars, tableVars, convVars, lockVars,
                   shutdownVars, Messages, renderVars, sendVars, processVars, clock>>

\* conv.Messages = append(conv.Messages, msg), first half: the slice is read.
\* No lock is held.
AppendRead(s) ==
    /\ senders[s].at = "read"
    /\ senders' = [senders EXCEPT ![s].at = "write", ![s].seen = Messages]
    /\ UNCHANGED <<streamVars, tableVars, convVars, lockVars,
                   shutdownVars, Messages, renderVars, sendVars, processVars, clock>>

\* conv.Messages = append(conv.Messages, msg), second half: the slice that
\* was read, with msg at its end, is stored. Then the message is saved, the
\* callback runs and the send goes on to its next message, or returns; time
\* has passed.
AppendWrite(s) ==
    /\ senders[s].at = "write"
    /\ Messages' = Append(senders[s].seen, senders[s].msg)
    /\ senders' = [senders EXCEPT
                       ![s].at = IF senders[s].k = Len(SendScript(s))
                                 THEN "done" ELSE "create",
                       ![s].k = @ + 1,
                       ![s].msg = <<>>,
                       ![s].seen = <<>>]
    /\ clock' = clock + 1
    /\ UNCHANGED <<streamVars, tableVars,
                   convVars, lockVars, shutdownVars, renderVars, sendVars, processVars>>

NextConcurrent == \E s \in Senders : CreateMessage(s) \/ AppendRead(s) \/ AppendWrite(s)

NextRender == AppendAny \/ Render

NextSend == SendUserMessage \/ LLMCompletes \/ FirstReply \/ ExecuteTool \/ LoopReply

\* The client of the request that made the send goes away: r.Context() is
\* done (main.go, handleSendMessageStream, the select on r.Context().Done()).
\* The send was started without that context and is not told.
CancelRequest ==
    /\ pc # "idle"
    /\ ~cancelled
    /\ cancelled' = TRUE
    /\ UNCHANGED <<streamVars, tableVars, convVars, lockVars,
                   concurrentVars, shutdownVars, Messages, renderVars, processVars, pc,
                   paramsMessages,
                   llmReply, userMessage, responseMessage, toolCalls, iteration, idx,
                   processedToolCallIDs, allNewMessages, result, llmCalls, delivered,
                   dbMessages, saveFailuresLeft, nextCallID, sendsLeft, variedLeft>>

NextCancel == NextSend \/ CancelRequest

\* Arbitrary appends and renderings of one log.
SpecRender == Init /\ [][NextRender]_vars

\* One send with tool calls of every kind.
Spec == Init /\ [][NextSend]_vars

\* Several sends on one conversation.
SpecSends == InitSends /\ [][NextSend]_vars

\* Concurrent callers of the process manager, the processes and the watchers.
\* The sends of SpecSends, whose requests may be cancelled.
SpecCancel == InitSends /\ [][NextCancel]_vars

\* The sends of SpecSends when every LLM call is answered, with a completion
\* or an error, and every tool call returns: the send in progress is a
\* sequential function, which takes its next step. ExecuteTool is enabled
\* exactly when pc = "tools", and its weak fairness is written with that.
SpecSendsFair ==
    /\ SpecSends
    /\ WF_vars(LLMCompletes)
    /\ WF_vars(FirstReply)
    /\ WF_vars(LoopReply)
    /\ ([]<>(pc # "tools") \/ []<><<ExecuteTool>>_vars)

\* One send whose saves to the database may fail.
SpecDB == InitDB /\ [][NextSend]_vars

\* Two sends to one conversation at the same time.
SpecConcurrent == InitPM /\ [][NextConcurrent]_vars

\* One streaming request is served.
InitStream ==
    /\ InitCommon
    /\ sendsLeft = 1
    /\ variedLeft = 0
    /\ saveFailuresLeft = 0

SpecStream == InitStream /\ [][NextStream]_vars

\* The scheduler runs every goroutine that can take a step: the worker's send
\* goes on as in SpecSendsFair, the worker reaches its deferred function, and
\* the handler's select takes a case that is ready.
SpecStreamFair ==
    /\ SpecStream
    /\ WF_vars(WorkerSends(LLMCompletes))
    /\ WF_vars(WorkerSends(FirstReply))
    /\ WF_vars(WorkerSends(LoopReply))
    /\ ([]<>(pc # "tools") \/ []<><<WorkerSends(ExecuteTool)>>_vars)
    /\ WF_vars(WorkerSendReturns)
    /\ WF_vars(HandlerContextDone)
    /\ WF_vars(HandlerReceivesDone)

\* The messages of one send are saved, as time passes, and loaded.
SpecLoad == InitPM /\ [][NextLoad]_vars

\* The engine's map of conversations under concurrent requests.
SpecConversations == InitPM /\ [][NextConversations]_vars

\* The supervisor with its mutex and concurrent ListProcesses calls.
SpecLock == InitPM /\ [][NextLock]_vars

SpecPM == InitPM /\ [][NextPM]_vars

\* The supervisor with the shutdown handler and the signals of the OS.
SpecShutdown == InitPM /\ [][NextShutdown]_vars

\* SpecPM with the goroutines scheduled fairly: a call of StartProcess that
\* started its command goes on to store the record, and an exit-watcher that
\* can take a step takes it.
SpecPMFair ==
    /\ SpecPM
    /\ \A i \in 1..MaxStarts :
          /\ WF_vars(i <= Len(watchers) /\ StartProcessStore(i))
          /\ WF_vars(i <= Len(watchers) /\ WatcherWaitReturns(i))
          /\ WF_vars(i <= Len(watchers) /\ WatcherDeletes(i))

\* ------------------------------------------- claims about the rendering

\* The positions of a rendering that hold an assistant message with tool calls.
RequestPositions(out) ==
    {a \in 1..Len(out) : out[a].role = "assistant" /\ Len(out[a].tool_calls) > 0}

RequestedIDs(m) == {m.tool_calls[i].ID : i \in 1..Len(m.tool_calls)}

\* The position of the next assistant message with tool calls after a, or the
\* position after the end.
NextRequest(out, a) ==
    IF \E b \in RequestPositions(out) : b > a
    THEN CHOOSE b \in RequestPositions(out) :
             b > a /\ \A c \in RequestPositions(out) : c > a => b <= c
    ELSE Len(out) + 1

IsPlaceholder(m) ==
    m.role = "tool" /\ m.content = ErrorToolMsg(m.tool_call_id).content

\* C2: in a rendering, every tool-call request of an assistant message has a
\* tool message with its identifier after that assistant message and before
\* the next assistant message with tool calls, and no tool message for a
\* requested identifier comes ahead of every assistant message requesting it.
C2_PairedAfterRequest ==
    isRendered =>
        /\ \A a \in RequestPositions(openaiMessages) :
             \A id \in RequestedIDs(openaiMessages[a]) :
                \E t \in (a + 1)..(NextRequest(openaiMessages, a) - 1) :
                    /\ openaiMessages[t].role = "tool"
                    /\ openaiMessages[t].tool_call_id = id
        /\ \A t \in 1..Len(openaiMessages) :
             (/\ openaiMessages[t].role = "tool"
              /\ \E a \in RequestPositions(openaiMessages) :
                    openaiMessages[t].tool_call_id \in RequestedIDs(openaiMessages[a]))
             => \E a \in RequestPositions(openaiMessages) :
                    /\ a < t
                    /\ openaiMessages[t].tool_call_id \in RequestedIDs(openaiMessages[a])

\* The position of the next assistant message with tool calls of a log.
NextRequestInLog(msgs, i) ==
    IF \E j \in (i + 1)..Len(msgs) : HasToolCalls(msgs[j])
    THEN CHOOSE j \in (i + 1)..Len(msgs) :
             HasToolCalls(msgs[j]) /\ \A k \in (i + 1)..(j - 1) : ~HasToolCalls(msgs[k])
    ELSE Len(msgs) + 1

\* The tool messages that answer identifier id between log position i and the
\* next assistant message with tool calls.
AnswersInLog(msgs, i, id) ==
    {j \in (i + 1)..(NextRequestInLog(msgs, i) - 1) :
        msgs[j].Role = "tool" /\ msgs[j].TollCallID = id}

\* Every assistant message with tool calls is followed by one tool message per
\* requested identifier.
WellPaired(msgs) ==
    \A i \in 1..Len(msgs) :
        HasToolCalls(msgs[i]) =>
            \A id \in ToolCallIDs(msgs[i]) :
                Cardinality(AnswersInLog(msgs, i, id)) = 1

\* C3: for a log in which every assistant message with tool calls is followed
\* by one tool message per requested identifier, the rendering has exactly one
\* message per log message, in log order, and no placeholder.
C3_NoPlaceholderWhenPaired ==
    (isRendered /\ WellPaired(Messages)) =>
        /\ Len(openaiMessages) = Len(Messages)
        /\ \A i \in 1..Len(openaiMessages) :
              /\ ~IsPlaceholder(openaiMessages[i])
              /\ i <= Len(Messages) => openaiMessages[i].content = Messages[i].Content

\* The last assistant message with tool calls of a log (0 when there is none).
LastRequestInLog(msgs) ==
    IF \E i \in 1..Len(msgs) : HasToolCalls(msgs[i])
    THEN CHOOSE i \in 1..Len(msgs) :
             HasToolCalls(msgs[i]) /\ \A j \in (i + 1)..Len(msgs) : ~HasToolCalls(msgs[j])
    ELSE 0

\* The identifiers still unanswered when the walk over the log ends.
UnansweredAtEnd(msgs) ==
    IF LastRequestInLog(msgs) = 0 THEN {}
    ELSE {id \in ToolCallIDs(msgs[LastRequestInLog(msgs)]) :
             AnswersInLog(msgs, LastRequestInLog(msgs), id) = {}}

\* C4: when the walk ends with identifiers unanswered, the rendering ends with
\* one placeholder per unanswered identifier, placed after the rendering of
\* the last log message.
C4_PlaceholdersAtEnd ==
    (isRendered /\ UnansweredAtEnd(Messages) # {}) =>
        LET n == Len(openaiMessages)
            k == Cardinality(UnansweredAtEnd(Messages))
        IN  /\ n > k
            /\ {openaiMessages[j] : j \in (n - k + 1)..n}
                   = {ErrorToolMsg(id) : id \in UnansweredAtEnd(Messages)}
            /\ openaiMessages[n - k] = ToOpenAIMessage(Messages[Len(Messages)])

\* The rendered messages that come from log messages.
FromLog(out) == SelectSeq(out, LAMBDA m : ~IsPlaceholder(m))

\* C5: every log message with role user, assistant or tool is rendered with
\* the same role and content, and the rendered messages that come from the
\* log keep the order of the log.
C5_RoundTrip ==
    isRendered =>
        /\ Len(FromLog(openaiMessages)) = Len(Messages)
        /\ \A i \in 1..Len(Messages) :
              i <= Len(FromLog(openaiMessages)) =>
                  /\ FromLog(openaiMessages)[i].content = Messages[i].Content
                  /\ Messages[i].Role \in {"user", "assistant", "tool"} =>
                         FromLog(openaiMessages)[i].role = Messages[i].Role

\* A log with all three roles was rendered, with a placeholder in between.
C5_Witness ==
    /\ isRendered
    /\ {"user", "assistant", "tool"} \subseteq {Messages[i].Role : i \in 1..Len(Messages)}
    /\ Len(openaiMessages) > Len(Messages)

\* ----------------------------------------------- claims about the send

\* The tool messages of a request that carry identifier id.
ToolMessagesFor(request, id) ==
    {t \in 1..Len(request) : request[t].role = "tool" /\ request[t].tool_call_id = id}

\* C1: every message sequence sent to the LLM holds, for every tool-call
\* identifier carried by one of its assistant messages, exactly one tool
\* message with that identifier.
C1_ExactlyOneToolMessage ==
    pc \in {"awaitFirst", "awaitLoop"} =>
        \A a \in RequestPositions(paramsMessages) :
            \A id \in RequestedIDs(paramsMessages[a]) :
                Cardinality(ToolMessagesFor(paramsMessages, id)) = 1

\* The assistant messages the send has made of the LLM's responses.
SendAssistants ==
    {responseMessage}
        \cup {allNewMessages[i] : i \in {j \in 1..Len(allNewMessages) :
                                           allNewMessages[j].Role = "assistant"}}

\* Every response of the LLM in this send carried exactly one tool call.
OneCallInEveryResponse ==
    /\ llmReply.state = "ok"
    /\ \A m \in SendAssistants : Len(m.ToolCalls) = 1

\* C6: the loop never runs more than MaxIterations rounds, and a send whose
\* every response carries exactly one tool call returns after exactly
\* MaxIterations rounds, without error and with a non-empty list: the user
\* message, the first response and a tool message and a response per round.
C6_StopsAtCap ==
    /\ iteration <= MaxIterations
    /\ (result.done /\ OneCallInEveryResponse) =>
           /\ ~result.err
           /\ iteration = MaxIterations
           /\ result.messages # <<>>
           /\ Len(result.messages) = 2 + 2 * MaxIterations

C6_Witness ==
    /\ result.done
    /\ OneCallInEveryResponse
    /\ iteration = MaxIterations
    /\ Cardinality(SendAssistants) = MaxIterations + 1

\* In a message list, the assistant message at p with n tool calls is followed
\* by n tool messages that carry the identifiers of the calls, in their order.
AnsweredInOrder(list, p) ==
    /\ p + Len(list[p].ToolCalls) <= Len(list)
    /\ \A j \in 1..Len(list[p].ToolCalls) :
          /\ list[p + j].Role = "tool"
          /\ list[p + j].TollCallID = list[p].ToolCalls[j].ID

\* The list is the user message, then rounds of an assistant message with
\* tool calls followed by one tool message per call, then a final assistant
\* message without tool calls.
RoundsThenFinal(list) ==
    /\ Len(list) >= 2
    /\ list[1].Role = "user"
    /\ list[2].Role = "assistant"
    /\ list[Len(list)].Role = "assistant" /\ Len(list[Len(list)].ToolCalls) = 0
    /\ \A p \in 2..Len(list) :
          /\ list[p].Role \in {"assistant", "tool"}
          /\ HasToolCalls(list[p]) =>
                /\ AnsweredInOrder(list, p)
                /\ p + Len(list[p].ToolCalls) < Len(list)
                /\ list[p + Len(list[p].ToolCalls) + 1].Role = "assistant"
          /\ (list[p].Role = "assistant" /\ ~HasToolCalls(list[p])) => p = Len(list)
          /\ list[p].Role = "tool" =>
                \E q \in 2..(p - 1) :
                    HasToolCalls(list[q]) /\ p - q <= Len(list[q].ToolCalls)

\* The number of assistant messages with tool calls in a list.
RoundsIn(list) == Cardinality({p \in 1..Len(list) : HasToolCalls(list[p])})

\* C7: a send that returns without error after k rounds, the last response
\* carrying no tool call, returns the user message, then for each round the
\* assistant message and one tool message per call, then the final assistant
\* message; the list is what the send appended to the log; with k = 0 it has 2
\* messages and with k = 1 and one call 4.
C7_ReturnedList ==
    (result.done /\ ~result.err /\ Len(llmReply.ToolCalls) = 0) =>
        /\ RoundsThenFinal(result.messages)
        /\ RoundsIn(result.messages) = iteration
        /\ result.messages[1] = userMessage
        /\ Len(Messages) >= Len(result.messages)
        /\ result.messages = SubSeq(Messages, Len(Messages) - Len(result.messages) + 1,
                                    Len(Messages))
        /\ iteration = 0 => Len(result.messages) = 2
        /\ (iteration = 1 /\ Len(responseMessage.ToolCalls) = 1) =>
               [i \in 1..Len(result.messages) |-> result.messages[i].Role]
                   = <<"user", "assistant", "tool", "assistant">>

C7_Witness ==
    /\ result.done /\ ~result.err /\ Len(llmReply.ToolCalls) = 0
    /\ iteration = 1
    /\ Len(result.messages) = 4

\* C8: while a round runs, the log ends with the assistant message of the
\* round followed by the tool messages of the calls executed so far, one per
\* call, in the order of the calls and with their identifiers; when the next
\* LLM call is made it ends with one tool message for every call of the round.
C8_OneToolMessagePerCall ==
    pc \in {"tools", "awaitLoop"} =>
        LET answered == IF pc = "tools" THEN idx - 1 ELSE Len(toolCalls)
            last == Len(Messages)
        IN  /\ last > answered
            /\ HasToolCalls(Messages[last - answered])
            /\ Messages[last - answered].ToolCalls = toolCalls
            /\ \A j \in 1..answered :
                  /\ Messages[last - answered + j].Role = "tool"
                  /\ Messages[last - answered + j].TollCallID = toolCalls[j].ID

C8_Witness ==
    /\ pc = "awaitLoop"
    /\ Len(toolCalls) = 2
    /\ Messages[Len(Messages)].TollCallID = toolCalls[2].ID

\* C9: when an LLM call has failed, the next step of the send returns an error
\* and no message list, and it appends nothing, executes no tool call and
\* issues no LLM call.
C9_LLMFailureAborts ==
    [][(pc \in {"awaitFirst", "awaitLoop"} /\ llmReply.state = "error") =>
          /\ pc' = "idle"
          /\ result' = Returned(<<>>, TRUE)
          /\ Messages' = Messages
          /\ processes' = processes /\ running' = running
          /\ paramsMessages' = paramsMessages]_vars

\* An LLM call inside the tool loop failed and the send returned.
C9_Witness ==
    /\ pc = "idle"
    /\ llmReply.state = "error"
    /\ result.done /\ result.err
    /\ iteration >= 1

\* The content the tool message has for a tool call that fails in one of the
\* five ways C10 names (the empty string for any other call).
FailureText(toolCall) ==
    CASE toolCall.Name \in {"bash_command", "kill_process"}
              /\ toolCall.Arguments = ArgsNotJSON ->
             "Error: failed to parse tool call arguments: "
                 \o "invalid character 'n' looking for beginning of object key string"
      [] toolCall.Name = "bash_command" /\ toolCall.Arguments = ArgsEmptyObject ->
             "Error: missing required 'command' argument"
      [] toolCall.Name = "read_file" -> "Error: unknown tool call 'read_file'"
      [] toolCall.Name = "kill_process" /\ toolCall.Arguments = ArgsPidUnknown ->
             "Error killing process: process 12345 not found"
      [] toolCall.Name = "bash_command" /\ toolCall.Arguments = ArgsLsNope ->
             "ls: cannot access '/nope': No such file or directory\n"
      [] OTHER -> ""

\* When the next LLM call is made, the tool message of every call of the round
\* that failed in one of the five ways has the failure text as content.
FailuresAreContent ==
    pc = "awaitLoop" =>
        \A j \in 1..Len(toolCalls) :
            FailureText(toolCalls[j]) # "" =>
                /\ Len(Messages) - Len(toolCalls) + j >= 1
                /\ Messages[Len(Messages) - Len(toolCalls) + j].Content
                       = FailureText(toolCalls[j])

\* C10: a send returns an error only when an LLM call failed; a tool call with
\* unparsable arguments, a missing command, an unknown tool name, a kill of an
\* unregistered PID or a nonzero exit yields a tool message with the error
\* text or the command output, and executing a tool call never ends the send:
\* the loop goes on to the next tool call or the next LLM call.
C10_OnlyLLMFailuresAreErrors ==
    /\ [](result.err => llmReply.state = "error")
    /\ []FailuresAreContent
    /\ [][pc = "tools" => (pc' \in {"tools", "awaitLoop"} /\ ~result'.done)]_vars

\* A send went through a call of an unknown tool and returned without error.
C10_Witness ==
    /\ result.done /\ ~result.err
    /\ \E i \in 1..Len(Messages) :
          /\ Messages[i].Role = "tool"
          /\ Messages[i].Content = "Error: unknown tool call 'read_file'"

\* ------------------------------------------ claims about the tool executor

\* The tool call the range over toolCalls is at.
CurrentToolCall == toolCalls[idx]

\* The content of the tool message a step of the range appends.
AppendedContent == Messages'[Len(Messages) + 1].Content

\* A bash_command call whose arguments parse and whose command is a string
\* that is empty after trimming.
IsBlankCommand(toolCall) ==
    /\ toolCall.Name = "bash_command"
    /\ Unmarshal(toolCall.Arguments).err = ""
    /\ Unmarshal(toolCall.Arguments).commandOk
    /\ TrimSpace(Unmarshal(toolCall.Arguments).command) = ""

\* The step runs no command, starts no process, sends no signal and leaves the
\* registry as it is.
NoSystemEffect ==
    /\ executed' = {}
    /\ signalled' = {}
    /\ running' = running
    /\ zombies' = zombies
    /\ watchers' = watchers
    /\ processes' = processes

\* C11: executing a bash_command call whose command is empty or blank, with or
\* without background, runs no command and starts no process, and the content
\* of the tool message appended for it is not empty.
C11_BlankCommandIsRejected ==
    [][(pc = "tools" /\ IsBlankCommand(CurrentToolCall)) =>
          /\ NoSystemEffect
          /\ AppendedContent # ""]_vars

\* A bash_command call with background = true whose command is not blank.
IsBackgroundStart(toolCall) ==
    /\ toolCall.Name = "bash_command"
    /\ Unmarshal(toolCall.Arguments).err = ""
    /\ Unmarshal(toolCall.Arguments).commandOk
    /\ Unmarshal(toolCall.Arguments).background
    /\ TrimSpace(Unmarshal(toolCall.Arguments).command) # ""

\* The step executes a background start whose launch fails: no process runs
\* that did not run before.
LaunchFails ==
    /\ pc = "tools"
    /\ IsBackgroundStart(CurrentToolCall)
    /\ running' = running

\* C30: when the launch of a background bash_command fails, the content of
\* the tool message appended for the call is not empty, and the registry is
\* left as it was.
C30_FailedLaunchIsReported ==
    [][LaunchFails =>
          /\ AppendedContent # ""
          /\ processes' = processes]_vars

\* The text of KillProcess's error for a pid without record, as the tool
\* message shows it.
NotFoundContent(pid) == "Error killing process: process " \o ToString(pid) \o " not found"

\* A kill_process call whose pid parses and has no record in the registry.
IsKillOfUnregistered(toolCall) ==
    /\ toolCall.Name = "kill_process"
    /\ Unmarshal(toolCall.Arguments).err = ""
    /\ Unmarshal(toolCall.Arguments).pidOk
    /\ Unmarshal(toolCall.Arguments).pid \notin DOMAIN processes

\* C12: executing a kill_process call for a pid without record appends a tool
\* message that says "not found", leaves the registry and the processes as
\* they are, and the loop goes on: to the next tool call, or to the next LLM
\* call, without returning.
C12_KillOfUnregisteredPid ==
    [][(pc = "tools" /\ IsKillOfUnregistered(CurrentToolCall)) =>
          /\ AppendedContent = NotFoundContent(Unmarshal(CurrentToolCall.Arguments).pid)
          /\ NoSystemEffect
          /\ ~result'.done
          /\ IF idx < Len(toolCalls)
             THEN pc' = "tools" /\ idx' = idx + 1
             ELSE pc' = "awaitLoop" /\ llmReply' = NoReply]_vars

\* A send asked to kill pid 12345, which was never started, while another
\* process was registered, and returned without error.
C12_Witness ==
    /\ result.done /\ ~result.err
    /\ DOMAIN processes = {FirstPid}
    /\ \E i \in 1..Len(Messages) :
          /\ Messages[i].Role = "tool"
          /\ Messages[i].Content = NotFoundContent(12345)

\* A call the switch rejects before doing anything: bash_command or
\* kill_process with unparsable arguments, bash_command without a string
\* command, kill_process without a numeric pid, or an unknown tool name.
IsMalformed(toolCall) ==
    \/ /\ toolCall.Name = "bash_command"
       /\ \/ Unmarshal(toolCall.Arguments).err # ""
          \/ ~Unmarshal(toolCall.Arguments).commandOk
    \/ /\ toolCall.Name = "kill_process"
       /\ \/ Unmarshal(toolCall.Arguments).err # ""
          \/ ~Unmarshal(toolCall.Arguments).pidOk
    \/ toolCall.Name \notin {"bash_command", "list_processes", "kill_process"}

\* The error texts of the switch for malformed calls.
MalformedTexts(toolCall) ==
    { "Error: failed to parse tool call arguments: "
          \o Unmarshal(toolCall.Arguments).err,
      "Error: missing required 'command' argument",
      "Error: invalid PID",
      "Error: unknown tool call '" \o toolCall.Name \o "'" }

\* C13: executing a malformed call appends a tool message whose content is a
\* non-empty error text, and runs no command, starts no process, sends no
\* signal and leaves the registry as it is.
C13_MalformedCallsOnlyReport ==
    [][(pc = "tools" /\ IsMalformed(CurrentToolCall)) =>
          /\ AppendedContent # ""
          /\ AppendedContent \in MalformedTexts(CurrentToolCall)
          /\ NoSystemEffect]_vars

\* A round started a background process and then executed a kill_process call
\* without numeric pid: the process is still registered and running.
C13_Witness ==
    /\ pc = "awaitLoop"
    /\ Len(toolCalls) = 2
    /\ Messages[Len(Messages)].Content = "Error: invalid PID"
    /\ DOMAIN processes = {FirstPid}
    /\ running = {FirstPid}

\* ---------------------------------------- claims about the process manager

\* The error KillProcess returns for a pid without record.
NotFound(pid) == "process " \o ToString(pid) \o " not found"

\* The step is a call KillProcess(pid) that returns.
KillReturns(pid) == pmResult'.op = "kill" /\ pmResult'.pid = pid

\* pid has a record and its process is running.
HasRunningSupervised(pid) == pid \in DOMAIN processes /\ pid \in running

\* C14: a call KillProcess(pid) made when pid has no running supervised
\* process (never started, already killed, or ended by itself, its record
\* still there or not) returns the not-found error.
C14_KillWithoutRunningProcess ==
    [][\A pid \in PidPool :
          (KillReturns(pid) /\ ~HasRunningSupervised(pid)) =>
              pmResult'.err = NotFound(pid)]_vars

\* The call that just returned is a successful KillProcess(pid).
KillSucceeded(pid) == pmResult.op = "kill" /\ pmResult.pid = pid /\ pmResult.err = ""

\* The records of the slice ListProcesses returned.
Listed(r) == {r.list[k] : k \in 1..Len(r.list)}

\* C15: when KillProcess(pid) returns nil the registry has no record for pid,
\* whatever the exit-watcher did; a ListProcesses that follows does not return
\* pid and a KillProcess(pid) that follows returns the not-found error.
C15_KilledRecordIsGone ==
    [][\A pid \in PidPool :
          /\ (KillReturns(pid) /\ pmResult'.err = "") => pid \notin DOMAIN processes'
          /\ (KillSucceeded(pid) /\ pmResult'.op = "list") =>
                 \A info \in Listed(pmResult') : info.PID # pid
          /\ (KillSucceeded(pid) /\ KillReturns(pid)) =>
                 pmResult'.err = NotFound(pid)]_vars

\* KillProcess just returned nil for a process whose exit-watcher is still in
\* cmd.Wait(), and the record is gone.
C15_Witness ==
    \E pid \in PidPool :
        /\ KillSucceeded(pid)
        /\ pid \notin DOMAIN processes
        /\ \E i \in 1..Len(watchers) : watchers[i].PID = pid /\ watchers[i].at = "wait"

\* The process of the i-th start is running: it was not waited for and its
\* pid is that of a running process.
Alive(i) == watchers[i].at \in {"start", "wait"} /\ watchers[i].PID \in running

\* The registry holds the record of the i-th start.
Registered(i) == \E pid \in DOMAIN processes : processes[pid].StartTime = i

\* C16: a StartProcess call that succeeds leaves a record under the pid of its
\* process, distinct from the pid of every other running process; the record
\* of a running process stays as it is through every step that sends it no
\* signal, in particular through a kill of another process, and every
\* ListProcesses returns it: after N starts whose processes still run
\* the registry holds their N records.
C16_RunningProcessesKeepTheirRecords ==
    [][\A i \in 1..Len(watchers) :
          /\ (watchers[i].at = "start" /\ watchers'[i].at = "wait") =>
                 /\ Registered(i)'
                 /\ \A j \in 1..Len(watchers) :
                       (j # i /\ Alive(j)) => watchers[j].PID # watchers[i].PID
          /\ (Registered(i) /\ Alive(i) /\ watchers[i].PID \notin signalled') =>
                 /\ Registered(i)'
                 /\ processes'[watchers[i].PID] = processes[watchers[i].PID]
                 /\ pmResult'.op = "list" =>
                        processes[watchers[i].PID] \in Listed(pmResult')]_vars

\* C17: ListProcesses returns exactly the registered records whose process is
\* running when it probes, keeps exactly those in the registry and removes
\* every other record.
C17_ListReturnsTheLiveRecords ==
    [][pmResult'.op = "list" =>
          LET live == {pid \in DOMAIN processes :
                          \E i \in 1..Len(watchers) :
                              /\ watchers[i].PID = pid
                              /\ Alive(i)
                              /\ processes[pid].StartTime = i}
          IN  /\ Listed(pmResult') = {processes[pid] : pid \in live}
              /\ Len(pmResult'.list) = Cardinality(live)
              /\ DOMAIN processes' = live
              /\ \A pid \in live : processes'[pid] = processes[pid]]_vars

\* C18: once the process of a start has ended, its exit-watcher eventually
\* deletes the key and the record of that start is out of the registry.
C18_WatcherRemovesTheRecord ==
    \A i \in 1..MaxStarts :
        (i <= Len(watchers) /\ watchers[i].at \in {"start", "wait"}
             /\ watchers[i].PID \in zombies)
        ~> (i <= Len(watchers) /\ watchers[i].at = "done" /\ ~Registered(i))

\* The second process started ended by itself and its exit-watcher removed
\* the record; the record of the first is still registered.
C18_Witness ==
    /\ Len(watchers) = 2
    /\ watchers[2].at = "done"
    /\ watchers[1].at = "wait"
    /\ Registered(1)
    /\ ~Registered(2)
    /\ pmResult = NoCall

\* C19: KillAll signals the pid of every record registered when it runs,
\* whether or not a process is left to take the signal, ends the running ones
\* and leaves the registry empty.
C19_KillAllEmptiesTheRegistry ==
    [][pmResult'.op = "killAll" =>
          /\ signalled' = DOMAIN processes
          /\ running' \cap DOMAIN processes = {}
          /\ processes' = <<>>]_vars

\* KillAll just ran over two records, one of a running process and one of a
\* process that had ended and been waited for, so that its signal failed.
C19_Witness ==
    /\ pmResult.op = "killAll"
    /\ processes = <<>>
    /\ \E pid \in signalled : pid \in zombies
    /\ \E pid \in signalled : pid \notin running \cup zombies

\* C20: KillByConversation(c) signals and removes the records whose
\* ConversationID is c and no other: the records of the other conversations
\* stay as they are, and their processes get no signal and keep running.
C20_KillByConversationIsExact ==
    [][\A c \in Conversations :
          (pmResult'.op = "killByConversation" /\ pmResult'.conversationID = c) =>
              LET match == {pid \in DOMAIN processes : processes[pid].ConversationID = c}
              IN  /\ signalled' = match
                  /\ DOMAIN processes' = DOMAIN processes \ match
                  /\ \A pid \in DOMAIN processes' : processes'[pid] = processes[pid]
                  /\ running' = running \ match]_vars

\* KillByConversation just ended the process of one conversation while the
\* process of the other conversation is registered and running.
C20_Witness ==
    /\ pmResult.op = "killByConversation"
    /\ \E pid \in signalled : pid \in zombies
    /\ \E pid \in DOMAIN processes :
          /\ processes[pid].ConversationID # pmResult.conversationID
          /\ pid \in running

\* The pid under which the record of the i-th start is registered.
RecordPid(i) == CHOOSE pid \in DOMAIN processes : processes[pid].StartTime = i

\* The step takes the record of the i-th start out of the registry.
RecordLeaves(i) == Registered(i) /\ ~Registered(i)'

\* C23: the record of a started process leaves the registry only through a
\* KillProcess of its pid, a KillByConversation, a KillAll, the delete of the
\* exit-watcher that observed the exit of its process, or a ListProcesses
\* that finds its process dead.
C23_RecordLeavesOnlyByKillOrExit ==
    [][\A i \in 1..Len(watchers) :
          RecordLeaves(i) =>
              \/ pmResult'.op = "kill" /\ pmResult'.pid = RecordPid(i)
              \/ pmResult'.op \in {"killAll", "killByConversation"}
              \/ pmResult'.op = "list" /\ ~Alive(i)
              \/ watchers[i].at = "lock" /\ watchers'[i].at = "done"]_vars

\* The send returned from the loop with tool calls still requested.
StoppedAtCap ==
    /\ pc = "idle"
    /\ result.done
    /\ llmReply.state = "ok"
    /\ Len(toolCalls) > 0

C31_LogEndsAnswered ==
    (pc = "idle" /\ result.done /\ ~result.err) =>
        /\ Messages[Len(Messages)].Role = "assistant"
        /\ Messages[Len(Messages)].ToolCalls = <<>>

\* s is a prefix of t.
IsPrefixOf(s, t) == Len(s) <= Len(t) /\ SubSeq(t, 1, Len(s)) = s

\* The step is the return of a send whose LLM call failed.
ReturnsError == pc # "idle" /\ pc' = "idle" /\ result'.err

\* The step starts the send that follows a failed one.
SendsAfterError == pc = "idle" /\ result.err /\ pc' = "awaitFirst"

\* C32: a send that returns the error of an LLM call returns no messages and
\* leaves the log as it is, with the messages the send appended (those the
\* callback was given) at its end; the next send appends to that log and sends
\* the rendering of every one of its messages to the LLM.
C32_FailedSendIsNotRolledBack ==
    [][/\ ReturnsError =>
             /\ result'.messages = <<>>
             /\ Messages' = Messages
             /\ Len(delivered) >= 1
             /\ SubSeq(Messages, Len(Messages) - Len(delivered) + 1, Len(Messages))
                    = delivered
       /\ SendsAfterError =>
             /\ IsPrefixOf(Messages, Messages')
             /\ \A k \in 1..Len(Messages) :
                   \E j \in 1..Len(paramsMessages') :
                       paramsMessages'[j] = ToOpenAIMessage(Messages[k])]_vars

\* The first send failed at the LLM call that ends its first tool round; the
\* second send has appended its user message and sent the log to the LLM.
C32_Witness ==
    /\ pc = "awaitFirst"
    /\ Len(Messages) = 4
    /\ Messages[2].Role = "assistant"
    /\ Messages[3].Role = "tool"
    /\ Messages[4].Role = "user"
    /\ Len(paramsMessages) >= 4

\* ---------------------------------------------- claims about the callback

\* C24: the callback of the send has been invoked once for each message the
\* send appended, in the order of the appends (the log of Spec holds the
\* messages of its one send and nothing else), and when the send returns
\* without error the returned list is that same sequence.
C24_CallbackSeesEveryAppend ==
    /\ delivered = Messages
    /\ (result.done /\ ~result.err) => result.messages = delivered

\* A send returned without error after a tool round; the callback was given
\* the user message, the assistant messages and the tool message.
C24_Witness ==
    /\ result.done
    /\ ~result.err
    /\ Len(delivered) >= 4
    /\ \E k \in 1..Len(delivered) : delivered[k].Role = "tool"

\* The step is one in which a save of the send failed.
SaveFails == saveFailuresLeft' < saveFailuresLeft

\* The messages the step appended to s.
Appended(s) == SubSeq(s', Len(s) + 1, Len(s'))

\* C25: a step of the send in which db.SaveMessage fails still appends its
\* message at the end of the log and invokes the callback for it, the row is
\* missing from the table, and the send goes on as it does when the save
\* succeeds: it returns no error for it.
C25_SaveFailureIsNotSurfaced ==
    [][SaveFails =>
          /\ Len(Messages') > Len(Messages)
          /\ SubSeq(Messages', 1, Len(Messages)) = Messages
          /\ Appended(delivered) = Appended(Messages)
          /\ Len(dbMessages') < Len(dbMessages) + Len(Appended(Messages))
          /\ ~result'.err
          /\ pc' = "idle" => result'.done]_vars

\* The save of a tool message failed: the message is in the log and was given
\* to the callback, the table lacks it, and the send returned without error.
C25_Witness ==
    /\ saveFailuresLeft < MaxSaveFailures
    /\ result.done
    /\ ~result.err
    /\ \E k \in 1..Len(Messages) :
          /\ Messages[k].Role = "tool"
          /\ delivered[k] = Messages[k]
          /\ \A j \in 1..Len(dbMessages) : dbMessages[j] # Messages[k]

\* ------------------------------------------- claims about concurrent sends

\* C26: every step leaves the log it found as a prefix of the log it leaves:
\* the log grows at its end only, no message is lost, reordered or deleted.
C26_LogOnlyGrowsAtTheEnd == [][IsPrefixOf(Messages, Messages')]_vars

\* The identifiers of the tool calls the message carries.
CallIDsOf(msg) == {msg.ToolCalls[c].ID : c \in 1..Len(msg.ToolCalls)}

\* C27: every tool message of the log answers a tool call of an assistant
\* message that stands before it in the log.
C27_ToolMessagesFollowTheirCall ==
    \A k \in 1..Len(Messages) :
        Messages[k].Role = "tool" =>
            \E j \in 1..(k - 1) :
                /\ Messages[j].Role = "assistant"
                /\ Messages[k].TollCallID \in CallIDsOf(Messages[j])

\* The times the clock shows in SpecConcurrent: it advances with every append.
ClockValues == FirstClock..(FirstClock + Cardinality(Senders) * Len(SendScript(1)))

\* The time an identifier was made of.
UnixNano(id) == CHOOSE now \in ClockValues : MessageID(now) = id

\* The number of messages goroutine s has made.
Created(s) == IF senders[s].at = "create" THEN senders[s].k - 1 ELSE senders[s].k

\* C28: the messages the sends have made have pairwise distinct identifiers,
\* within one send and between concurrent sends, and the identifiers of the
\* log increase from each message to the next.
C28_IdentifiersAreDistinctAndIncrease ==
    /\ \A s \in Senders : Cardinality(senders[s].ids) = Created(s)
    /\ \A s, t \in Senders : s # t => senders[s].ids \cap senders[t].ids = {}
    /\ \A j, k \in 1..Len(Messages) :
          j < k => UnixNano(Messages[j].ID) < UnixNano(Messages[k].ID)

\* C36: every started process that has not exited has its record in the
\* registry, in every reachable state.
C36_RunningProcessesAreRegistered ==
    \A i \in 1..Len(watchers) : Alive(i) => Registered(i)

\* The step is the delete of the exit-watcher of the i-th start.
WatcherDeleteOf(i) == watchers[i].at = "lock" /\ watchers'[i].at = "done"

\* C37: the delete of an exit-watcher leaves the record of every other start
\* in the registry, unchanged.
C37_WatcherRemovesOnlyItsOwnRecord ==
    [][\A i \in 1..Len(watchers) :
          WatcherDeleteOf(i) =>
              \A j \in 1..Len(watchers) :
                  (j # i /\ Registered(j)) =>
                      /\ Registered(j)'
                      /\ processes'[RecordPid(j)] = processes[RecordPid(j)]]_vars

\* C38: LoadConversation returns the saved messages in the order in which
\* they were saved, each with its tool calls in their original order.
C38_LoadReturnsTheSavedOrder ==
    [][loaded' # loaded =>
          loaded' = SubSeq(SavedScript, 1, Len(messagesTable))]_vars

\* C39: once the send of a streaming request has finished, its worker
\* goroutine eventually terminates: its send on the done channel completes.
C39_WorkerTerminates ==
    (stream.worker = "done <- true") ~> (stream.worker = "terminated")

\* ---------------------------------------------------- claims about the lock

\* C33: every step that changes the registry map is taken while no goroutine
\* holds the mutex for reading, that is, under the exclusive lock.
C33_MutationsHoldTheExclusiveLock ==
    [][processes' # processes => ReadLockHolders = {}]_vars

\* C34: all calls for one identifier return the same Conversation object, and
\* a map entry, once set, is never replaced by a different object.
C34_OneObjectPerConversation ==
    /\ \A x, y \in returned : (x[1] = y[1] /\ x[2] # 0 /\ y[2] # 0) => x[2] = y[2]
    /\ \A id \in DOMAIN conversations :
          \A x \in returned : (x[1] = id /\ x[2] # 0) => x[2] = conversations[id]

\* C35: no step changes the map of conversations while ListConversation ranges
\* over it.
C35_NoInsertDuringListConversation ==
    [][conversations' # conversations => ranging.at # "range"]_vars

\* ------------------------------------------------ claims about cancellation

\* The step issues an LLM call of the send in progress.
IssuesLLMCall == pc # "idle" /\ llmCalls' = llmCalls + 1

\* The step starts a round of tool execution.
StartsRound == pc # "idle" /\ iteration' = iteration + 1

\* C22: once the context of the request is cancelled, the send in progress
\* issues no LLM call and starts no tool round.
C22_CancelledSendStops ==
    [][cancelled /\ pc # "idle" => ~IssuesLLMCall /\ ~StartsRound]_vars

\* ---------------------------------------------------- claims about shutdown

\* The step ends the program.
ProgramEnds == ProgramRuns /\ ~ProgramRuns'

\* C21: when a signal ends the program, the handler has run KillAll to
\* completion before; the handler is installed once and runs KillAll at most
\* once.
C21_SignalRunsKillAllThenExits ==
    [][/\ ProgramEnds => cleanup.at = "killed" /\ cleanup.killAlls = 1
       /\ cleanup'.installs <= 1
       /\ cleanup'.killAlls <= 1]_vars

====
